---- MODULE Spec2Model ----
(***************************************************************************)
(* A model of the wahoo message archive: the two tables of messages.db     *)
(* (chats, messages), the ingestion handlers that write them, DeleteChat,  *)
(* and the read operations of db.Store with the row projector and the      *)
(* sender cache.                                                           *)
(*                                                                         *)
(* Text values (JIDs, names, contents, media types) are sequences of       *)
(* one-character strings, so that the code's string operations             *)
(* (strings.Index, slicing, LIKE, LOWER) are computed and not assumed.     *)
(* A timestamp is the stored, comparable TIMESTAMP value, a natural number.*)
(* A message id is an opaque value, a natural number.                      *)
(*                                                                         *)
(* A read operation is one step on an archive that no writer changes       *)
(* while it runs.  Where SQL leaves the outcome open (the order of rows    *)
(* with equal timestamps, the row QueryRow takes when several match, the   *)
(* order of rows read without ORDER BY) every outcome is a behaviour.      *)
(***************************************************************************)
EXTENDS Integers, Sequences, FiniteSets, TLC

VARIABLES
    chats,      \* the rows of table chats: records [jid, name, last_message_time]
    messages,   \* the rows of table messages
    waDB,       \* whatsapp.db as the store sees it (read-only for this program)
    live,       \* the handleMessage call in progress
    sync,       \* the handleHistorySync call in progress
    del,        \* the DeleteChat call in progress
    lastCall,   \* observer: the last completed call of the store API or of a handler
    lastStored, \* observer: per chat, the timestamp of the row StoreMessage wrote last
    events,     \* the number of handler and DeleteChat calls started so far
    op          \* observer: the last completed read operation, its inputs and its result

vars == <<chats, messages, waDB, live, sync, del, lastCall, lastStored, events, op>>

----------------------------------------------------------------------------
(* Bounds of the model *)

\* timestamps range over 1..MaxTime
MaxTime == 3

\* at most MaxEvents calls of handleMessage, handleHistorySync and DeleteChat start
MaxEvents == 3

\* a history-sync conversation carries at most MaxSyncLen messages
MaxSyncLen == 2

----------------------------------------------------------------------------
(* Text *)

Empty == <<>>

\* strings.Index(s, "@"): the 0-based index of the first "@", -1 when there is none
IndexAt(s) ==
    IF \E i \in 1..Len(s) : s[i] = "@"
    THEN (CHOOSE i \in 1..Len(s) : s[i] = "@" /\ \A j \in 1..(i - 1) : s[j] # "@") - 1
    ELSE -1

\* s[:idx]
Prefix(s, idx) == SubSeq(s, 1, idx)

JidA == <<"1", "@", "s">>
JidB == <<"2", "@", "g">>
ChatJids == {JidA, JidB}

\* JID.User of a chat JID
UserOf(jid) == IF IndexAt(jid) > 0 THEN Prefix(jid, IndexAt(jid)) ELSE jid

TextHi == <<"h", "i">>
TextYo == <<"Y", "o">>
MediaImage == <<"i", "m", "g">>

----------------------------------------------------------------------------
(* The tables of messages.db *)

\* the media columns of a message without media
NoMedia ==
    [media_type |-> Empty, filename |-> Empty, url |-> Empty, media_key |-> Empty,
     file_sha256 |-> Empty, file_enc_sha256 |-> Empty, file_length |-> 0]

\* the media columns extractMediaInfo yields for an image message
ImageMedia ==
    [media_type |-> MediaImage, filename |-> <<"f">>, url |-> <<"u">>, media_key |-> <<"k">>,
     file_sha256 |-> <<"x">>, file_enc_sha256 |-> <<"y">>, file_length |-> 7]

\* the arguments of StoreMessage, which are also the columns of a row of messages
MessageRow(id, chatJID, sender, content, timestamp, isFromMe, media) ==
    [id |-> id, chat_jid |-> chatJID, sender |-> sender, content |-> content,
     timestamp |-> timestamp, is_from_me |-> isFromMe,
     media_type |-> media.media_type, filename |-> media.filename, url |-> media.url,
     media_key |-> media.media_key, file_sha256 |-> media.file_sha256,
     file_enc_sha256 |-> media.file_enc_sha256, file_length |-> media.file_length]

SameKey(m, id, chatJID) == m.id = id /\ m.chat_jid = chatJID

\* the mutant of ChatExists: the foreign key is not enforced
ChatExistsUnchecked(chs, jid) == TRUE

ChatExists(chs, jid) == \E c \in chs : c.jid = jid

\* INSERT OR REPLACE INTO chats: the row of the same primary key is replaced
StoreChat(chs, jid, name, lastMessageTime) ==
    {c \in chs : c.jid # jid}
        \cup {[jid |-> jid, name |-> name, last_message_time |-> lastMessageTime]}

\* the mutant of StoreMessage: an insert that keeps the row of the same key
StoreMessageAppend(msgs, chs, row) ==
    IF row.content = Empty /\ row.media_type = Empty
    THEN [messages |-> msgs, err |-> "nil", wrote |-> FALSE]
    ELSE IF ~ChatExists(chs, row.chat_jid)
    THEN [messages |-> msgs, err |-> "foreign key", wrote |-> FALSE]
    ELSE [messages |-> msgs \cup {row}, err |-> "nil", wrote |-> TRUE]

\* the mutant of StoreMessage: no skip of an empty message
StoreMessageNoSkip(msgs, chs, row) ==
    IF ~ChatExists(chs, row.chat_jid)
    THEN [messages |-> msgs, err |-> "foreign key", wrote |-> FALSE]
    ELSE [messages |-> {m \in msgs : ~SameKey(m, row.id, row.chat_jid)} \cup {row},
          err |-> "nil", wrote |-> TRUE]

\* the mutant of StoreMessage: a row of the same key keeps its sender, timestamp and
\* is_from_me, and takes the other columns of the new row
StoreMessageSomeColumns(msgs, chs, row) ==
    IF row.content = Empty /\ row.media_type = Empty
    THEN [messages |-> msgs, err |-> "nil", wrote |-> FALSE]
    ELSE IF ~ChatExists(chs, row.chat_jid)
    THEN [messages |-> msgs, err |-> "foreign key", wrote |-> FALSE]
    ELSE [messages |-> {m \in msgs : ~SameKey(m, row.id, row.chat_jid)}
                        \cup {[row EXCEPT !.sender = m.sender, !.timestamp = m.timestamp,
                                          !.is_from_me = m.is_from_me] :
                                 m \in {x \in msgs : SameKey(x, row.id, row.chat_jid)}}
                        \cup (IF \E x \in msgs : SameKey(x, row.id, row.chat_jid)
                              THEN {} ELSE {row}),
          err |-> "nil", wrote |-> TRUE]

\* StoreMessage: skip when content and media type are empty; else INSERT OR REPLACE,
\* which the foreign key on chat_jid (foreign keys are on) refuses without a chat row
StoreMessage(msgs, chs, row) ==
    IF row.content = Empty /\ row.media_type = Empty
    THEN [messages |-> msgs, err |-> "nil", wrote |-> FALSE]
    ELSE IF ~ChatExists(chs, row.chat_jid)
    THEN [messages |-> msgs, err |-> "foreign key", wrote |-> FALSE]
    ELSE [messages |-> {m \in msgs : ~SameKey(m, row.id, row.chat_jid)} \cup {row},
          err |-> "nil", wrote |-> TRUE]

----------------------------------------------------------------------------
(* The state after NewStore on an empty store directory *)

Idle == [pc |-> "idle"]
NoCall == [op |-> "none"]
NoOp == [name |-> "none"]

NoWaDB == [open |-> FALSE, contactsOk |-> FALSE, contacts |-> {}, lidOk |-> FALSE, lids |-> {}]

Init ==
    /\ chats = {}
    /\ messages = {}
    /\ waDB = NoWaDB
    /\ live = Idle
    /\ sync = Idle
    /\ del = Idle
    /\ lastCall = NoCall
    /\ lastStored = [j \in ChatJids |-> 0]
    /\ events = 0
    /\ op = NoOp

----------------------------------------------------------------------------
(* Calls of the store's write API with arguments of the caller's choice *)

ChatNames == {<<"A">>}

\* what a caller may pass: content, timestamp and media columns
Payloads ==
    {[content |-> TextHi, timestamp |-> 1, media |-> NoMedia],
     [content |-> TextYo, timestamp |-> 2, media |-> NoMedia],
     [content |-> Empty, timestamp |-> 3, media |-> ImageMedia],
     [content |-> Empty, timestamp |-> 2, media |-> NoMedia]}

\* the (id, chat) keys a caller may pass
StoreKeys == {<<1, JidA>>, <<2, JidA>>, <<1, JidB>>}

StoreArgs ==
    {MessageRow(k[1], k[2], <<"1">>, p.content, p.timestamp, FALSE, p.media) :
        k \in StoreKeys, p \in Payloads}

StoreChatCall ==
    /\ live = Idle /\ sync = Idle /\ del = Idle
    /\ \E jid \in ChatJids, name \in ChatNames, t \in 1..MaxTime :
          /\ chats' = StoreChat(chats, jid, name, t)
          /\ lastCall' = [op |-> "StoreChat", jid |-> jid, name |-> name, time |-> t]
    /\ UNCHANGED <<messages, waDB, live, sync, del, lastStored, events, op>>

StoreMessageCall ==
    /\ live = Idle /\ sync = Idle /\ del = Idle
    /\ \E row \in StoreArgs :
          LET r == StoreMessage(messages, chats, row)
              old == {m \in messages : SameKey(m, row.id, row.chat_jid)}
          IN  /\ messages' = r.messages
              /\ lastCall' = [op |-> "StoreMessage", args |-> row, err |-> r.err,
                              replaced |-> old]
              /\ lastStored' = IF r.wrote
                               THEN [lastStored EXCEPT ![row.chat_jid] = row.timestamp]
                               ELSE lastStored
    /\ UNCHANGED <<chats, waDB, live, sync, del, events, op>>

----------------------------------------------------------------------------
(* Chat names *)

\* types.ParseJID refuses a string with more than one "@"
ParseJID(jid) == Cardinality({i \in 1..Len(jid) : jid[i] = "@"}) <= 1

\* JID.Server of a parsed chat JID
ServerOf(jid) == IF IndexAt(jid) >= 0 THEN SubSeq(jid, IndexAt(jid) + 2, Len(jid)) ELSE jid

GroupServer == <<"g">>

\* the names the whatsmeow client may report for a group or a contact; Empty: none
ExternalNames == {Empty, <<"N">>}

\* GetChatName: the stored name when there is a non-empty one; else, for a group, the
\* conversation's name, the group info's name or "Group <user>"; for a contact, the
\* contact's full name, the sender or the JID's user.
\* conversation: the name extractConversationName finds (Empty without a conversation);
\* external: what GetGroupInfo or GetContact reports
GetChatName(chs, jid, conversation, sender, external) ==
    IF \E c \in chs : c.jid = jid /\ c.name # Empty
    THEN (CHOOSE c \in chs : c.jid = jid).name
    ELSE IF ServerOf(jid) = GroupServer
    THEN IF conversation # Empty THEN conversation
         ELSE IF external # Empty THEN external
         ELSE <<"G">> \o UserOf(jid)
    ELSE IF external # Empty THEN external
         ELSE IF sender # Empty THEN sender
         ELSE UserOf(jid)

----------------------------------------------------------------------------
(* handleMessage: a live message event *)

EmptyMessage(content, media) == content = Empty /\ media.media_type = Empty

\* what extractTextContent and extractMediaInfo yield for the events of the model
LivePayloads ==
    {[content |-> TextHi, media |-> NoMedia],
     [content |-> Empty, media |-> NoMedia]}

LiveEvents ==
    {[chat |-> j, sender |-> <<"1">>, id |-> 1, timestamp |-> t, isFromMe |-> FALSE,
      content |-> p.content, media |-> p.media] :
        j \in ChatJids, t \in 1..MaxTime, p \in LivePayloads}

\* lines 127-130: the event arrives and GetChatName reads the chat's name
LiveGetChatName ==
    /\ live = Idle
    /\ events < MaxEvents
    /\ events' = events + 1
    /\ \E ev \in LiveEvents, external \in ExternalNames :
          live' = [pc |-> "StoreChat", ev |-> ev,
                   name |-> GetChatName(chats, ev.chat, Empty, ev.sender, external)]
    /\ UNCHANGED <<chats, messages, waDB, sync, del, lastCall, lastStored, op>>

\* lines 132-141: StoreChat, then return when the message has no content and no media
LiveStoreChat ==
    /\ live.pc = "StoreChat"
    /\ chats' = StoreChat(chats, live.ev.chat, live.name, live.ev.timestamp)
    /\ live' = IF EmptyMessage(live.ev.content, live.ev.media)
               THEN Idle
               ELSE [live EXCEPT !.pc = "StoreMessage"]
    /\ UNCHANGED <<messages, waDB, sync, del, lastCall, lastStored, events, op>>

\* lines 143-150: StoreMessage; an error is logged
LiveStoreMessage ==
    /\ live.pc = "StoreMessage"
    /\ LET ev == live.ev
           row == MessageRow(ev.id, ev.chat, ev.sender, ev.content, ev.timestamp,
                             ev.isFromMe, ev.media)
           r == StoreMessage(messages, chats, row)
       IN  /\ messages' = r.messages
           /\ lastCall' = [op |-> "StoreMessage", args |-> row, err |-> r.err,
                           replaced |-> {m \in messages : SameKey(m, row.id, row.chat_jid)}]
           /\ lastStored' = IF r.wrote
                            THEN [lastStored EXCEPT ![row.chat_jid] = row.timestamp]
                            ELSE lastStored
    /\ live' = Idle
    /\ UNCHANGED <<chats, waDB, sync, del, events, op>>

handleMessage == LiveGetChatName \/ LiveStoreChat \/ LiveStoreMessage

----------------------------------------------------------------------------
(* handleHistorySync: one conversation of a history-sync event *)

BadJid == <<"1", "@", "@">>
OwnUser == <<"0">>

\* the messages a conversation may list; nil: an entry with msg or msg.Message nil
HistoryMessages ==
    {[nil |-> FALSE, id |-> 2, timestamp |-> 2, content |-> TextHi, media |-> NoMedia,
      fromMe |-> FALSE, participant |-> Empty],
     [nil |-> FALSE, id |-> 3, timestamp |-> 1, content |-> TextYo, media |-> NoMedia,
      fromMe |-> FALSE, participant |-> <<"3", "@", "s">>],
     [nil |-> FALSE, id |-> 2, timestamp |-> 3, content |-> Empty, media |-> NoMedia,
      fromMe |-> TRUE, participant |-> Empty],
     [nil |-> FALSE, id |-> 3, timestamp |-> 0, content |-> TextHi, media |-> NoMedia,
      fromMe |-> TRUE, participant |-> Empty],
     [nil |-> TRUE, id |-> 0, timestamp |-> 0, content |-> Empty, media |-> NoMedia,
      fromMe |-> FALSE, participant |-> Empty]}

RECURSIVE SeqsUpTo(_, _)
SeqsUpTo(S, n) ==
    IF n = 0 THEN {<<>>}
    ELSE SeqsUpTo(S, n - 1) \cup {Append(q, x) : q \in {r \in SeqsUpTo(S, n - 1) : Len(r) = n - 1}, x \in S}

\* id: conversation.ID (hasId FALSE: nil); name: what extractConversationName finds
Conversations ==
    {[hasId |-> TRUE, id |-> j, name |-> Empty, messages |-> ms] :
        j \in ChatJids, ms \in SeqsUpTo(HistoryMessages, MaxSyncLen)}
    \cup {[hasId |-> TRUE, id |-> JidB, name |-> <<"C">>, messages |-> <<>>],
          [hasId |-> FALSE, id |-> Empty, name |-> Empty, messages |-> <<>>],
          [hasId |-> TRUE, id |-> BadJid, name |-> Empty, messages |-> <<>>]}

\* lines 215-231: the sender of a history message (Key is present in the model)
HistorySender(msg, jid) ==
    IF ~msg.fromMe /\ msg.participant # Empty THEN msg.participant
    ELSE IF msg.fromMe THEN OwnUser
    ELSE UserOf(jid)

\* lines 171-198: the guards before StoreChat, with the read of GetChatName between them
SyncGetChatName ==
    /\ sync = Idle
    /\ events < MaxEvents
    /\ events' = events + 1
    /\ \E conv \in Conversations, external \in ExternalNames :
          sync' = IF \/ ~conv.hasId
                     \/ ~ParseJID(conv.id)
                     \/ Len(conv.messages) = 0
                     \/ conv.messages[1].nil
                     \/ conv.messages[1].timestamp = 0
                  THEN Idle
                  ELSE [pc |-> "StoreChat", conv |-> conv, i |-> 1,
                        name |-> GetChatName(chats, conv.id, conv.name, Empty, external)]
    /\ UNCHANGED <<chats, messages, waDB, live, del, lastCall, lastStored, op>>

\* lines 199-200: StoreChat with the timestamp of messages[0]
SyncStoreChat ==
    /\ sync.pc = "StoreChat"
    /\ chats' = StoreChat(chats, sync.conv.id, sync.name, sync.conv.messages[1].timestamp)
    /\ sync' = [sync EXCEPT !.pc = "StoreMessage"]
    /\ UNCHANGED <<messages, waDB, live, del, lastCall, lastStored, events, op>>

\* lines 203-253: one turn of the loop over the conversation's messages
SyncStoreMessage ==
    /\ sync.pc = "StoreMessage"
    /\ LET msg == sync.conv.messages[sync.i]
           skip == \/ msg.nil
                   \/ EmptyMessage(msg.content, msg.media)
                   \/ msg.timestamp = 0
           row == MessageRow(msg.id, sync.conv.id, HistorySender(msg, sync.conv.id),
                             msg.content, msg.timestamp, msg.fromMe, msg.media)
           r == StoreMessage(messages, chats, row)
       IN  IF skip
           THEN UNCHANGED <<messages, lastCall, lastStored>>
           ELSE /\ messages' = r.messages
                /\ lastCall' = [op |-> "StoreMessage", args |-> row, err |-> r.err,
                                replaced |-> {m \in messages : SameKey(m, row.id, row.chat_jid)}]
                /\ lastStored' = IF r.wrote
                                 THEN [lastStored EXCEPT ![row.chat_jid] = row.timestamp]
                                 ELSE lastStored
    /\ sync' = IF sync.i = Len(sync.conv.messages)
               THEN Idle
               ELSE [sync EXCEPT !.i = sync.i + 1]
    /\ UNCHANGED <<chats, waDB, live, del, events, op>>

handleHistorySync == SyncGetChatName \/ SyncStoreChat \/ SyncStoreMessage

----------------------------------------------------------------------------
(* DeleteChat *)

DeleteArgs == ChatJids \cup {BadJid}

\* lines 197-211: the guards and the remote delete; connected and sent: the client is
\* connected, SendAppState returns no error
DeleteChatBegin ==
    /\ del = Idle
    /\ events < MaxEvents
    /\ events' = events + 1
    /\ \E jid \in DeleteArgs, connected \in BOOLEAN, sent \in BOOLEAN :
          del' = IF connected /\ ParseJID(jid) /\ sent
                 THEN [pc |-> "DeleteMessages", jid |-> jid]
                 ELSE Idle
    /\ UNCHANGED <<chats, messages, waDB, live, sync, lastCall, lastStored, op>>

\* the mutant of DeleteChatMessages: the messages of every chat are deleted
DeleteChatMessagesOfAll ==
    /\ del.pc = "DeleteMessages"
    /\ messages' = {}
    /\ lastStored' = [lastStored EXCEPT ![del.jid] = 0]
    /\ del' = [del EXCEPT !.pc = "DeleteChat"]
    /\ UNCHANGED <<chats, waDB, live, sync, lastCall, events, op>>

\* line 214: DELETE FROM messages WHERE chat_jid = ?
DeleteChatMessages ==
    /\ del.pc = "DeleteMessages"
    /\ messages' = {m \in messages : m.chat_jid # del.jid}
    /\ lastStored' = [lastStored EXCEPT ![del.jid] = 0]
    /\ del' = [del EXCEPT !.pc = "DeleteChat"]
    /\ UNCHANGED <<chats, waDB, live, sync, lastCall, events, op>>

\* line 215: DELETE FROM chats WHERE jid = ?; the foreign key refuses it while a message
\* of the chat exists, and the error is ignored
DeleteChatRow ==
    /\ del.pc = "DeleteChat"
    /\ chats' = IF \E m \in messages : m.chat_jid = del.jid
                THEN chats
                ELSE {c \in chats : c.jid # del.jid}
    /\ del' = Idle
    /\ UNCHANGED <<messages, waDB, live, sync, lastCall, lastStored, events, op>>

DeleteChat == DeleteChatBegin \/ DeleteChatMessages \/ DeleteChatRow

----------------------------------------------------------------------------
(* The ingestion handlers and DeleteChat, interleaved statement by statement *)

Next == handleMessage \/ handleHistorySync \/ DeleteChat

Spec == Init /\ [][Next]_vars

----------------------------------------------------------------------------
(* The store's write API alone *)

NextStore == StoreChatCall \/ StoreMessageCall

SpecStore == Init /\ [][NextStore]_vars

\* the ingestion handlers alone: no chat is deleted
NextIngest == handleMessage \/ handleHistorySync

SpecIngest == Init /\ [][NextIngest]_vars

----------------------------------------------------------------------------
(* The sender cache and the row projector *)

\* cache[k] = v
Put(cache, k, v) == [x \in DOMAIN cache \cup {k} |-> IF x = k THEN v ELSE cache[x]]

\* a Go map read: the zero value, "", for a missing key
Get(cache, k) == IF k \in DOMAIN cache THEN cache[k] ELSE Empty

EmptyCache == [x \in {} |-> Empty]

\* cache[jid] = name, and cache[jid[:idx]] = name when the "@" is not the first character
PutBoth(cache, jid, name) ==
    LET c1 == Put(cache, jid, name)
    IN  IF IndexAt(jid) > 0 THEN Put(c1, Prefix(jid, IndexAt(jid)), name) ELSE c1

\* the sequences that list every element of S once: the orders a query without
\* ORDER BY may return its rows in
RECURSIVE Orders(_)
Orders(S) ==
    IF S = {} THEN {<<>>}
    ELSE UNION {{<<x>> \o q : q \in Orders(S \ {x})} : x \in S}

\* lines 223-235: the chats with a non-empty name, in the order the rows come
RECURSIVE CacheChats(_, _)
CacheChats(cache, rows) ==
    IF rows = <<>> THEN cache
    ELSE CacheChats(PutBoth(cache, Head(rows).jid, Head(rows).name), Tail(rows))

\* the mutant of CacheContacts: a contact does not replace an entry of the chat table
RECURSIVE CacheContactsKeepChats(_, _)
CacheContactsKeepChats(cache, rows) ==
    IF rows = <<>> THEN cache
    ELSE LET r == Head(rows)
             name == IF r.full_name = Empty THEN r.push_name ELSE r.full_name
         IN  CacheContactsKeepChats(IF name # Empty /\ r.their_jid \notin DOMAIN cache
                                    THEN PutBoth(cache, r.their_jid, name) ELSE cache,
                                    Tail(rows))

\* lines 248-263: the contacts; full_name, else push_name, when one is non-empty
RECURSIVE CacheContacts(_, _)
CacheContacts(cache, rows) ==
    IF rows = <<>> THEN cache
    ELSE LET r == Head(rows)
             name == IF r.full_name = Empty THEN r.push_name ELSE r.full_name
         IN  CacheContacts(IF name # Empty THEN PutBoth(cache, r.their_jid, name) ELSE cache,
                           Tail(rows))

PhoneSuffix == <<"@", "s">>
LidSuffix == <<"@", "l">>

\* the mutant of CacheLids: the bare linked identifier gets no entry
RECURSIVE CacheLidsSuffixedOnly(_, _)
CacheLidsSuffixedOnly(cache, rows) ==
    IF rows = <<>> THEN cache
    ELSE LET r == Head(rows)
             byJid == Get(cache, r.pn \o PhoneSuffix)
             name == IF byJid = Empty THEN Get(cache, r.pn) ELSE byJid
         IN  CacheLidsSuffixedOnly(IF name # Empty
                                   THEN Put(cache, r.lid \o LidSuffix, name)
                                   ELSE cache,
                                   Tail(rows))

\* lines 271-284: the LID map, resolved through the cache built so far
RECURSIVE CacheLids(_, _)
CacheLids(cache, rows) ==
    IF rows = <<>> THEN cache
    ELSE LET r == Head(rows)
             byJid == Get(cache, r.pn \o PhoneSuffix)
             name == IF byJid = Empty THEN Get(cache, r.pn) ELSE byJid
         IN  CacheLids(IF name # Empty
                       THEN Put(Put(cache, r.lid \o LidSuffix, name), r.lid, name)
                       ELSE cache,
                       Tail(rows))

\* the mutant of BuildSenderCache: nothing is returned when whatsapp.db cannot be read
BuildSenderCacheAllOrNothing(chs, wa) ==
    {IF ~wa.open \/ ~wa.contactsOk \/ ~wa.lidOk THEN EmptyCache
     ELSE CacheLids(CacheContacts(c1, o2), o3) :
        c1 \in {CacheChats(EmptyCache, o1) : o1 \in Orders({c \in chs : c.name # Empty})},
        o2 \in Orders(wa.contacts),
        o3 \in Orders(wa.lids)}

\* BuildSenderCache: the caches it may return, one for each order of the rows read
BuildSenderCache(chs, wa) ==
    {IF ~wa.open \/ ~wa.contactsOk THEN c1
     ELSE IF ~wa.lidOk THEN CacheContacts(c1, o2)
     ELSE CacheLids(CacheContacts(c1, o2), o3) :
        c1 \in {CacheChats(EmptyCache, o1) : o1 \in Orders({c \in chs : c.name # Empty})},
        o2 \in Orders(wa.contacts),
        o3 \in Orders(wa.lids)}

\* the mutant of resolveSender: no lookup of the local part
resolveSenderNoLocalPart(senderJID, cache) ==
    IF senderJID \in DOMAIN cache THEN cache[senderJID] ELSE senderJID

\* resolveSender: the cache entry of the JID, else of its part before the "@", else the JID
resolveSender(senderJID, cache) ==
    IF senderJID \in DOMAIN cache THEN cache[senderJID]
    ELSE IF IndexAt(senderJID) > 0 /\ Prefix(senderJID, IndexAt(senderJID)) \in DOMAIN cache
    THEN cache[Prefix(senderJID, IndexAt(senderJID))]
    ELSE senderJID

Me == <<"M", "e">>

\* resolveMessageSender: "Me" for an own message
resolveMessageSender(senderJID, isFromMe, cache) ==
    IF isFromMe THEN Me ELSE resolveSender(senderJID, cache)

\* a *string field: {} when nil, {v} when set
Opt(present, v) == IF present THEN {v} ELSE {}

\* rawToDict: a scanned row as a MessageDict
rawToDict(r, cache) ==
    [id |-> r.id, timestamp |-> r.timestamp,
     sender |-> resolveMessageSender(r.sender, r.isFromMe, cache),
     sender_jid |-> r.sender, content |-> r.content, is_from_me |-> r.isFromMe,
     chat_jid |-> r.chatJID,
     chat_name |-> Opt(r.chatName # Empty, r.chatName),
     media_type |-> Opt(r.mediaType # Empty, r.mediaType)]

----------------------------------------------------------------------------
(* resolveMessageSender on inputs of the caller's choice *)

ResolveSenders ==
    {<<"1">>, <<"1", "@", "s">>, <<"2", "@", "s">>, <<"@", "s">>, <<"1", "@", "s", "@", "x">>}

ResolveKeys == {<<"1">>, <<"1", "@", "s">>, <<"2">>}
ResolveNames == {<<"A">>, <<"B">>}

\* the caches: the partial maps from ResolveKeys to ResolveNames
ResolveCaches == UNION {[K -> ResolveNames] : K \in SUBSET ResolveKeys}

InitResolve ==
    /\ chats = {} /\ messages = {} /\ waDB = NoWaDB
    /\ live = Idle /\ sync = Idle /\ del = Idle
    /\ lastCall = NoCall
    /\ lastStored = [j \in ChatJids |-> 0]
    /\ events = 0
    /\ \E sender \in ResolveSenders, isFromMe \in BOOLEAN, cache \in ResolveCaches :
          op = [name |-> "input", sender |-> sender, isFromMe |-> isFromMe, cache |-> cache]

Resolve ==
    /\ op.name = "input"
    /\ op' = [name |-> "resolveMessageSender", sender |-> op.sender,
              isFromMe |-> op.isFromMe, cache |-> op.cache,
              result |-> resolveMessageSender(op.sender, op.isFromMe, op.cache)]
    /\ UNCHANGED <<chats, messages, waDB, live, sync, del, lastCall, lastStored, events>>

SpecResolve == InitResolve /\ [][Resolve]_vars

----------------------------------------------------------------------------
(* The SQL statements of the read side *)

\* one row of messages JOIN chats ON messages.chat_jid = chats.jid, as scanned
Raw(m, c) ==
    [timestamp |-> m.timestamp, sender |-> m.sender, chatName |-> c.name,
     content |-> m.content, isFromMe |-> m.is_from_me, chatJID |-> c.jid,
     id |-> m.id, mediaType |-> m.media_type]

JoinedRows(msgs, chs) ==
    {Raw(p[1], p[2]) : p \in {q \in msgs \X chs : q[1].chat_jid = q[2].jid}}

\* ORDER BY messages.timestamp: every order the engine may give to rows whose
\* timestamps are equal
RECURSIVE OrderByTimestamp(_, _)
OrderByTimestamp(S, desc) ==
    IF S = {} THEN {<<>>}
    ELSE LET firsts == {x \in S : \A y \in S : IF desc THEN y.timestamp <= x.timestamp
                                                       ELSE x.timestamp <= y.timestamp}
         IN  UNION {{<<x>> \o q : q \in OrderByTimestamp(S \ {x}, desc)} : x \in firsts}

\* LIMIT ? OFFSET ?: a negative limit is no limit, a negative offset is 0
LimitOffset(rows, limit, offset) ==
    LET off == IF offset < 0 THEN 0 ELSE offset
        rest == IF off >= Len(rows) THEN <<>> ELSE SubSeq(rows, off + 1, Len(rows))
    IN  IF limit < 0 \/ limit > Len(rest) THEN rest ELSE SubSeq(rest, 1, limit)

Reverse(rows) == [i \in 1..Len(rows) |-> rows[Len(rows) + 1 - i]]

LowerChar(c) ==
    CASE c = "H" -> "h"
      [] c = "I" -> "i"
      [] c = "Y" -> "y"
      [] c = "O" -> "o"
      [] OTHER -> c

\* LOWER(text)
Lower(text) == [i \in 1..Len(text) |-> LowerChar(text[i])]

\* text LIKE '%' || q || '%', for a q without wildcard characters
Like(text, q) ==
    \E i \in 0..(Len(text) - Len(q)) : SubSeq(Lower(text), i + 1, i + Len(q)) = Lower(q)

\* WHERE messages.id = ?, read with QueryRow: any one of the rows with that id
TargetRows(msgs, chs, messageID) == {r \in JoinedRows(msgs, chs) : r.id = messageID}

\* the mutant of BeforeRows: the messages of every chat
BeforeRowsAnyChat(msgs, chs, target, before) ==
    {Reverse(LimitOffset(o, before, 0)) :
        o \in OrderByTimestamp({r \in JoinedRows(msgs, chs) :
                                   r.timestamp < target.timestamp}, TRUE)}

\* the mutant of BeforeRows: the rows are left newest first
BeforeRowsNewestFirst(msgs, chs, target, before) ==
    {LimitOffset(o, before, 0) :
        o \in OrderByTimestamp({r \in JoinedRows(msgs, chs) :
                                   /\ r.chatJID = target.chatJID
                                   /\ r.timestamp < target.timestamp}, TRUE)}

\* the mutant of BeforeRows: the limit is not applied
BeforeRowsNoLimit(msgs, chs, target, before) ==
    {Reverse(o) :
        o \in OrderByTimestamp({r \in JoinedRows(msgs, chs) :
                                   /\ r.chatJID = target.chatJID
                                   /\ r.timestamp < target.timestamp}, TRUE)}

\* WHERE chat_jid = ? AND timestamp < ? ORDER BY timestamp DESC LIMIT ?, reversed
BeforeRows(msgs, chs, target, before) ==
    {Reverse(LimitOffset(o, before, 0)) :
        o \in OrderByTimestamp({r \in JoinedRows(msgs, chs) :
                                   /\ r.chatJID = target.chatJID
                                   /\ r.timestamp < target.timestamp}, TRUE)}

\* WHERE chat_jid = ? AND timestamp > ? ORDER BY timestamp ASC LIMIT ?
AfterRows(msgs, chs, target, after) ==
    {LimitOffset(o, after, 0) :
        o \in OrderByTimestamp({r \in JoinedRows(msgs, chs) :
                                   /\ r.chatJID = target.chatJID
                                   /\ r.timestamp > target.timestamp}, FALSE)}

\* getMessageContextRaw: before + target + after, or the error of a missing id
getMessageContextRaw(msgs, chs, messageID, before, after) ==
    IF TargetRows(msgs, chs, messageID) = {} THEN {[err |-> TRUE, rows |-> <<>>]}
    ELSE UNION {{[err |-> FALSE, rows |-> b \o <<t>> \o a] :
                    b \in BeforeRows(msgs, chs, t, before),
                    a \in AfterRows(msgs, chs, t, after)} :
                t \in TargetRows(msgs, chs, messageID)}

DefaultMessageContext == 5

Dicts(rows, cache) == [i \in 1..Len(rows) |-> rawToDict(rows[i], cache)]

\* GetMessageContext: the results it may return
GetMessageContext(msgs, chs, wa, messageID, before0, after0) ==
    LET before == IF before0 = 0 THEN DefaultMessageContext ELSE before0
        after == IF after0 = 0 THEN DefaultMessageContext ELSE after0
    IN  IF TargetRows(msgs, chs, messageID) = {}
        THEN {[err |-> TRUE, Message |-> {}, Before |-> <<>>, After |-> <<>>]}
        ELSE UNION {{[err |-> FALSE, Message |-> {rawToDict(t, cache)},
                      Before |-> Dicts(b, cache), After |-> Dicts(a, cache)] :
                        b \in BeforeRows(msgs, chs, t, before),
                        a \in AfterRows(msgs, chs, t, after),
                        cache \in BuildSenderCache(chs, wa)} :
                    t \in TargetRows(msgs, chs, messageID)}

DefaultLimit == 20
DefaultListContext == 1

\* the mutant of Matches: the chat is not compared
MatchesAnyChat(r, opts) ==
    /\ \A t \in opts.After : r.timestamp > t
    /\ \A t \in opts.Before : r.timestamp < t
    /\ \A x \in opts.SenderPhoneNumber : r.sender = x
    /\ \A q \in opts.Query : Like(r.content, q) \/ Like(r.mediaType, q)

\* the WHERE clauses of ListMessages; an option that is nil adds none
Matches(r, opts) ==
    /\ \A t \in opts.After : r.timestamp > t
    /\ \A t \in opts.Before : r.timestamp < t
    /\ \A x \in opts.SenderPhoneNumber : r.sender = x
    /\ \A j \in opts.ChatJID : r.chatJID = j
    /\ \A q \in opts.Query : Like(r.content, q) \/ Like(r.mediaType, q)

\* the mutant of AppendUnseen: every row of the window is emitted
AppendAll(acc, ctx) == acc \o ctx

\* lines 422-427: the rows of one window whose id was not emitted yet; seen holds
\* the ids of the rows emitted so far
RECURSIVE AppendUnseen(_, _)
AppendUnseen(acc, ctx) ==
    IF ctx = <<>> THEN acc
    ELSE AppendUnseen(IF \E i \in 1..Len(acc) : acc[i].id = Head(ctx).id
                      THEN acc ELSE Append(acc, Head(ctx)),
                      Tail(ctx))

\* lines 417-428: the matches from the i-th on, each expanded by id; a failed
\* expansion is skipped. read counts the rows the windows held.
RECURSIVE Expand(_, _, _, _, _, _, _)
Expand(msgs, chs, page, i, before, after, acc) ==
    IF i > Len(page) THEN {acc}
    ELSE UNION {Expand(msgs, chs, page, i + 1, before, after,
                       IF w.err THEN acc
                       ELSE [rows |-> AppendUnseen(acc.rows, w.rows),
                             read |-> acc.read + Len(w.rows)]) :
                   w \in getMessageContextRaw(msgs, chs, page[i].id, before, after)}

\* the mutant of PageOffset: the page number taken for the offset
PageOffsetIsPage(page, limit) == page

\* line 391
PageOffset(page, limit) == page * limit

\* ListMessages: the results it may return
ListMessages(msgs, chs, wa, opts) ==
    LET limit == IF opts.Limit = 0 THEN DefaultLimit ELSE opts.Limit
        before == IF opts.IncludeContext /\ opts.ContextBefore = 0
                  THEN DefaultListContext ELSE opts.ContextBefore
        after == IF opts.IncludeContext /\ opts.ContextAfter = 0
                 THEN DefaultListContext ELSE opts.ContextAfter
        pages == {LimitOffset(o, limit, PageOffset(opts.Page, limit)) :
                     o \in OrderByTimestamp({r \in JoinedRows(msgs, chs) : Matches(r, opts)},
                                            TRUE)}
        raws == UNION {IF opts.IncludeContext /\ Len(page) > 0
                       THEN Expand(msgs, chs, page, 1, before, after,
                                   [rows |-> <<>>, read |-> 0])
                       ELSE {[rows |-> page, read |-> Len(page)]} : page \in pages}
    IN  {[result |-> Dicts(x.rows, cache), read |-> x.read] :
            x \in raws, cache \in BuildSenderCache(chs, wa)}

----------------------------------------------------------------------------
(* The read side on archives of the caller's choice *)

QueryKeys == {<<1, JidA>>, <<2, JidA>>, <<3, JidA>>, <<1, JidB>>}

\* the message stored under a key: a text, an own image, a text; chat B's message
\* was sent by a participant known by a full JID
QueryRow(id, jid, timestamp) ==
    MessageRow(id, jid,
               IF jid = JidB THEN <<"3", "@", "s">> ELSE IF id = 2 THEN OwnUser ELSE <<"1">>,
               IF id = 2 THEN Empty ELSE IF id = 3 THEN TextYo ELSE TextHi,
               timestamp,
               jid = JidA /\ id = 2,
               IF id = 2 THEN ImageMedia ELSE NoMedia)

\* one chat with more messages on each side of a target than the default window
LongArchive == {QueryRow(i, JidA, i) : i \in 1..(2 * DefaultMessageContext + 3)}

\* every subset of the keys, every assignment of timestamps (0: not stored)
QueryArchives ==
    {{QueryRow(k[1], k[2], f[k]) : k \in {x \in QueryKeys : f[x] # 0}} :
        f \in [QueryKeys -> 0..MaxTime]} \cup {LongArchive}

QueryChats ==
    {[jid |-> JidA, name |-> <<"A">>, last_message_time |-> MaxTime],
     [jid |-> JidB, name |-> Empty, last_message_time |-> MaxTime]}

QueryWaDB ==
    [open |-> TRUE, contactsOk |-> TRUE,
     contacts |-> {[their_jid |-> <<"3", "@", "s">>, full_name |-> Empty, push_name |-> <<"P">>]},
     lidOk |-> TRUE,
     lids |-> {[lid |-> <<"9">>, pn |-> <<"3">>]}]

InitQuery ==
    /\ messages \in QueryArchives
    /\ chats = QueryChats
    /\ waDB = QueryWaDB
    /\ live = Idle /\ sync = Idle /\ del = Idle
    /\ lastCall = NoCall
    /\ lastStored = [j \in ChatJids |-> 0]
    /\ events = 0
    /\ op = NoOp

NoFilter ==
    [After |-> {}, Before |-> {}, SenderPhoneNumber |-> {}, ChatJID |-> {}, Query |-> {}]

Filters ==
    {NoFilter,
     [NoFilter EXCEPT !.ChatJID = {JidA}],
     [NoFilter EXCEPT !.ChatJID = {JidB}],
     [NoFilter EXCEPT !.After = {1}, !.SenderPhoneNumber = {<<"1">>}],
     [NoFilter EXCEPT !.Before = {MaxTime}, !.ChatJID = {JidA}],
     [NoFilter EXCEPT !.Query = {<<"I">>}]}

MaxCount == 2
Counts == (-1)..MaxCount
ListCounts == {-1, 0, 2}
Limits == {0, 1, 2}
Pages == {0, 1}

ListOpts(filter, limit, page, includeContext, before, after) ==
    [After |-> filter.After, Before |-> filter.Before,
     SenderPhoneNumber |-> filter.SenderPhoneNumber, ChatJID |-> filter.ChatJID,
     Query |-> filter.Query, Limit |-> limit, Page |-> page,
     IncludeContext |-> includeContext, ContextBefore |-> before, ContextAfter |-> after]

\* one call of ListMessages; the window sizes matter only with IncludeContext
ListMessagesCall ==
    /\ op = NoOp
    /\ \E filter \in Filters, limit \in Limits, page \in Pages, includeContext \in BOOLEAN :
       \E before \in IF includeContext THEN ListCounts ELSE {0},
          after \in IF includeContext THEN ListCounts ELSE {0} :
       LET opts == ListOpts(filter, limit, page, includeContext, before, after)
       IN  \E r \in ListMessages(messages, chats, waDB, opts) :
              op' = [name |-> "ListMessages", opts |-> opts,
                     result |-> r.result, read |-> r.read]
    /\ UNCHANGED <<chats, messages, waDB, live, sync, del, lastCall, lastStored, events>>

MissingId == 0

\* one call of GetMessageContext, for a stored id or for an id that is not stored
GetMessageContextCall ==
    /\ op = NoOp
    /\ \E id \in {m.id : m \in messages} \cup {MissingId}, before \in Counts, after \in Counts :
       \E r \in GetMessageContext(messages, chats, waDB, id, before, after) :
          op' = [name |-> "GetMessageContext", id |-> id, before |-> before, after |-> after,
                 err |-> r.err, Message |-> r.Message, Before |-> r.Before, After |-> r.After]
    /\ UNCHANGED <<chats, messages, waDB, live, sync, del, lastCall, lastStored, events>>

PageLimits == {1, 2}

\* pages 0 and 1 at limit L and page 0 at limit 2L, without filters, the other
\* parameters equal, read from the same archive
ListMessagesPages ==
    /\ op = NoOp
    /\ \E limit \in PageLimits, includeContext \in BOOLEAN :
       LET page0 == ListOpts(NoFilter, limit, 0, includeContext, 0, 0)
           page1 == ListOpts(NoFilter, limit, 1, includeContext, 0, 0)
           both == ListOpts(NoFilter, 2 * limit, 0, includeContext, 0, 0)
       IN  \E r0 \in ListMessages(messages, chats, waDB, page0),
              r1 \in ListMessages(messages, chats, waDB, page1),
              r2 \in ListMessages(messages, chats, waDB, both) :
              op' = [name |-> "ListMessagesPages", opts |-> page0,
                     page0 |-> r0.result, page1 |-> r1.result, both |-> r2.result]
    /\ UNCHANGED <<chats, messages, waDB, live, sync, del, lastCall, lastStored, events>>

NextQuery == ListMessagesCall \/ GetMessageContextCall \/ ListMessagesPages

SpecQuery == InitQuery /\ [][NextQuery]_vars

----------------------------------------------------------------------------
(* The chat lookups *)

GroupSuffix == <<"@", "g">>

\* strings.HasSuffix
HasSuffix(text, suffix) ==
    Len(text) >= Len(suffix) /\ SubSeq(text, Len(text) - Len(suffix) + 1, Len(text)) = suffix

\* jid LIKE '%@g.us'
LikeGroup(jid) == HasSuffix(Lower(jid), Lower(GroupSuffix))

\* a row of chats with the columns of the message joined to it; nulls is TRUE for the
\* row a LEFT JOIN gives to a chat without such a message
RawChat(c, m, nulls) ==
    [jid |-> c.jid, name |-> c.name, lastTime |-> c.last_message_time,
     lastMsg |-> Opt(~nulls, m.content), lastSender |-> Opt(~nulls, m.sender),
     lastIsFromMe |-> Opt(~nulls, m.is_from_me)]

NoMessage == MessageRow(0, Empty, Empty, Empty, 0, FALSE, NoMedia)

\* chats LEFT JOIN messages ON chats.jid = messages.chat_jid
\*                          AND chats.last_message_time = messages.timestamp
LastMessageRows(msgs, chs) ==
    UNION {LET last == {m \in msgs : m.chat_jid = c.jid /\ m.timestamp = c.last_message_time}
           IN  IF last = {} THEN {RawChat(c, NoMessage, TRUE)}
               ELSE {RawChat(c, m, FALSE) : m \in last} : c \in chs}

\* rawChat.toDict
toDict(r, cache) ==
    [jid |-> r.jid, is_group |-> HasSuffix(r.jid, GroupSuffix),
     name |-> {r.name}, last_message_time |-> {r.lastTime},
     last_message |-> r.lastMsg,
     last_sender |-> {resolveMessageSender(x, r.lastIsFromMe = {TRUE}, cache) :
                         x \in r.lastSender},
     last_is_from_me |-> r.lastIsFromMe]

\* a lookup that found one of the rows
FoundChats(rows, chs, wa) ==
    {[err |-> "nil", found |-> TRUE, chat |-> {toDict(r, cache)}] :
        r \in rows, cache \in BuildSenderCache(chs, wa)}

NoChat == [err |-> "nil", found |-> FALSE, chat |-> {}]

\* GetChat. Without includeLastMessage the statement selects m.content, m.sender and
\* m.is_from_me from a FROM clause that has no m: it does not prepare.
GetChat(msgs, chs, wa, chatJID, includeLastMessage) ==
    IF ~includeLastMessage THEN {[err |-> "get chat", found |-> FALSE, chat |-> {}]}
    ELSE LET rows == {r \in LastMessageRows(msgs, chs) : r.jid = chatJID}
         IN  IF rows = {} THEN {NoChat} ELSE FoundChats(rows, chs, wa)

\* GetDirectChatByContact: WHERE c.jid LIKE '%' || ? || '%' AND c.jid NOT LIKE '%@g.us'
\* LIMIT 1, any one of the rows
GetDirectChatByContact(msgs, chs, wa, phoneNumber) ==
    LET rows == {r \in LastMessageRows(msgs, chs) :
                    Like(r.jid, phoneNumber) /\ ~LikeGroup(r.jid)}
    IN  IF rows = {} THEN {NoChat} ELSE FoundChats(rows, chs, wa)

\* GetLastInteraction: WHERE m.sender = ? OR c.jid = ? ORDER BY m.timestamp DESC LIMIT 1
GetLastInteraction(msgs, chs, wa, jid) ==
    LET rows == {r \in JoinedRows(msgs, chs) : r.sender = jid \/ r.chatJID = jid}
    IN  IF rows = {} THEN {[err |-> "nil", found |-> FALSE, message |-> {}]}
        ELSE {[err |-> "nil", found |-> TRUE, message |-> {rawToDict(o[1], cache)}] :
                 o \in OrderByTimestamp(rows, TRUE), cache \in BuildSenderCache(chs, wa)}

\* the handlers of the lookups: the store's error, else an error for a nil result
handleLookup(r, notFound) ==
    IF r.err # "nil" THEN [r EXCEPT !.found = FALSE]
    ELSE IF ~r.found THEN [r EXCEPT !.err = notFound]
    ELSE r

----------------------------------------------------------------------------
(* The chat lists *)

\* the characters of the model in the order of their codes: the BINARY collation
Alphabet ==
    <<"0", "1", "2", "3", "4", "5", "6", "7", "8", "9", "@", "A", "B", "C", "F", "G", "H",
      "I", "M", "N", "O", "P", "Y", "b", "e", "f", "g", "h", "i", "k", "l", "m", "o", "s",
      "u", "x", "y">>

CharCode(c) == CHOOSE i \in 1..Len(Alphabet) : Alphabet[i] = c

\* a < b as TEXT values
RECURSIVE TextLess(_, _)
TextLess(a, b) ==
    IF b = <<>> THEN FALSE
    ELSE IF a = <<>> THEN TRUE
    ELSE IF Head(a) # Head(b) THEN CharCode(Head(a)) < CharCode(Head(b))
    ELSE TextLess(Tail(a), Tail(b))

\* ORDER BY a column: key gives each row its rank; rows of equal rank in any order
RECURSIVE OrderByKey(_, _, _)
OrderByKey(S, key, desc) ==
    IF S = {} THEN {<<>>}
    ELSE LET firsts == {x \in S : \A y \in S : IF desc THEN key[y] <= key[x]
                                                       ELSE key[x] <= key[y]}
         IN  UNION {{<<x>> \o q : q \in OrderByKey(S \ {x}, key, desc)} : x \in firsts}

\* the rank of each row by name: the number of names of S below its own
NameRank(S) ==
    [r \in S |-> Cardinality({n \in {x.name : x \in S} : TextLess(n, r.name)})]

\* the rank of each row by (name, jid)
NameJidRank(S) ==
    [r \in S |-> Cardinality({x \in S : \/ TextLess(x.name, r.name)
                                       \/ (x.name = r.name /\ TextLess(x.jid, r.jid))})]

\* the mutant of LastTimeRank: the oldest chat has the highest rank
LastTimeRankOldest(S) == [r \in S |-> 0 - r.lastTime]

LastTimeRank(S) == [r \in S |-> r.lastTime]

ChatDicts(rows, cache) == [i \in 1..Len(rows) |-> toDict(rows[i], cache)]

SortByLastActive == <<"l", "a">>
SortByName == <<"n", "a">>

\* ListChats: the results it may return. Without IncludeLastMessage the statement
\* selects messages.content, messages.sender and messages.is_from_me from chats
\* alone: it does not prepare.
ListChats(msgs, chs, wa, opts) ==
    LET limit == IF opts.Limit = 0 THEN DefaultLimit ELSE opts.Limit
        sortBy == IF opts.SortBy = Empty THEN SortByLastActive ELSE opts.SortBy
        rows == {r \in LastMessageRows(msgs, chs) :
                    \A q \in opts.Query : Like(r.name, q) \/ Like(r.jid, q)}
        sorted == IF sortBy = SortByLastActive THEN OrderByKey(rows, LastTimeRank(rows), TRUE)
                  ELSE OrderByKey(rows, NameRank(rows), FALSE)
    IN  IF ~opts.IncludeLastMessage
        THEN {[err |-> "list chats query", isNil |-> TRUE, result |-> <<>>]}
        ELSE {[err |-> "nil", isNil |-> FALSE,
               result |-> ChatDicts(LimitOffset(o, limit, opts.Page * limit), cache)] :
                 o \in sorted, cache \in BuildSenderCache(chs, wa)}

SearchLimit == 50

\* the mutant of ContactRows: the group chats are searched too
ContactRowsWithGroups(chs, query) ==
    {[jid |-> c.jid, name |-> c.name] :
        c \in {x \in chs : Like(x.name, query) \/ Like(x.jid, query)}}

\* SELECT DISTINCT jid, name FROM chats WHERE (name or jid LIKE) AND jid NOT LIKE '%@g.us'
ContactRows(chs, query) ==
    {[jid |-> c.jid, name |-> c.name] :
        c \in {x \in chs : (Like(x.name, query) \/ Like(x.jid, query)) /\ ~LikeGroup(x.jid)}}

\* lines 685-696
ContactDict(r) == [phone_number |-> UserOf(r.jid), name |-> {r.name}, jid |-> r.jid]

\* SearchContacts: ORDER BY name, jid LIMIT 50
SearchContacts(chs, query) ==
    {[err |-> "nil", isNil |-> FALSE,
      result |-> [i \in 1..Len(LimitOffset(o, SearchLimit, 0)) |-> ContactDict(o[i])]] :
        o \in OrderByKey(ContactRows(chs, query), NameJidRank(ContactRows(chs, query)), FALSE)}

\* GetContactChats: SELECT DISTINCT the chat and the message columns FROM chats c
\* JOIN messages m WHERE m.sender = ? OR c.jid = ? ORDER BY c.last_message_time DESC
GetContactChats(msgs, chs, wa, jid, limit0, page) ==
    LET limit == IF limit0 = 0 THEN DefaultLimit ELSE limit0
        rows == {RawChat(p[2], p[1], FALSE) :
                    p \in {q \in msgs \X chs : /\ q[1].chat_jid = q[2].jid
                                               /\ (q[1].sender = jid \/ q[2].jid = jid)}}
    IN  {[err |-> "nil", isNil |-> FALSE,
          result |-> ChatDicts(LimitOffset(o, limit, page * limit), cache)] :
            o \in OrderByKey(rows, LastTimeRank(rows), TRUE),
            cache \in BuildSenderCache(chs, wa)}

----------------------------------------------------------------------------
(* The chat operations on archives of the caller's choice *)

Jid3s == <<"3", "@", "s">>
Jid9s == <<"9", "@", "s">>

\* the chat row of a key: a named contact, a named group, a contact without a name
ChatRow(jid, lastMessageTime) ==
    [jid |-> jid,
     name |-> IF jid = JidA THEN <<"A">> ELSE IF jid = JidB THEN <<"b">> ELSE Empty,
     last_message_time |-> lastMessageTime]

\* the times a chat row or a message may carry; 0: not stored
ChatTimes(j) == IF j = JidA THEN 0..MaxTime ELSE IF j = JidB THEN {0, 2} ELSE {0, 1}
ChatKeys == {<<1, JidA>>, <<2, JidA>>, <<1, JidB>>}
KeyTimes(k) == IF k = <<1, JidA>> THEN 0..MaxTime ELSE {0, 2}

ChatTables ==
    {{ChatRow(j, f[j]) : j \in {x \in {JidA, JidB, Jid3s} : f[x] # 0}} :
        f \in {g \in [{JidA, JidB, Jid3s} -> 0..MaxTime] :
                  \A j \in {JidA, JidB, Jid3s} : g[j] \in ChatTimes(j)}}

\* the messages the chats of a table may hold: the foreign key wants the chat row
ChatArchives(chs) ==
    {{QueryRow(k[1], k[2], f[k]) : k \in {x \in ChatKeys : f[x] # 0}} :
        f \in {g \in [ChatKeys -> 0..MaxTime] :
                  \A k \in ChatKeys : /\ g[k] \in KeyTimes(k)
                                      /\ g[k] # 0 => ChatExists(chs, k[2])}}

\* more contacts than a search returns, and a group: no messages, keys 00@s, 01@s, ...,
\* every third contact named
Digits == <<"0", "1", "2", "3", "4", "5", "6", "7", "8", "9">>
ManyChats ==
    {[jid |-> <<Digits[(i \div 10) + 1], Digits[(i % 10) + 1], "@", "s">>,
      name |-> IF i % 3 = 0 THEN <<"A">> ELSE Empty,
      last_message_time |-> i + 1] : i \in 0..(SearchLimit + 1)}
        \cup {[jid |-> JidB, name |-> <<"A">>, last_message_time |-> 1]}

InitChats ==
    /\ chats \in ChatTables
    /\ messages \in ChatArchives(chats)
    /\ waDB = QueryWaDB
    /\ live = Idle /\ sync = Idle /\ del = Idle
    /\ lastCall = NoCall
    /\ lastStored = [j \in ChatJids |-> 0]
    /\ events = 0
    /\ op = NoOp

Quiet == UNCHANGED <<chats, messages, waDB, live, sync, del, lastCall, lastStored, events>>

\* handleGetChat
handleGetChat ==
    /\ op = NoOp
    /\ \E chatJID \in {JidA, JidB, Jid3s, Jid9s}, includeLastMessage \in BOOLEAN :
       \E r \in GetChat(messages, chats, waDB, chatJID, includeLastMessage) :
          LET h == handleLookup(r, "chat not found")
          IN  op' = [name |-> "GetChat", key |-> chatJID,
                     includeLastMessage |-> includeLastMessage,
                     err |-> h.err, found |-> h.found, chat |-> h.chat]
    /\ Quiet

\* handleGetDirectChatByContact
handleGetDirectChatByContact ==
    /\ op = NoOp
    /\ \E phoneNumber \in {<<"1">>, <<"2">>, <<"3">>, <<"9">>} :
       \E r \in GetDirectChatByContact(messages, chats, waDB, phoneNumber) :
          LET h == handleLookup(r, "no direct chat found")
          IN  op' = [name |-> "GetDirectChatByContact", key |-> phoneNumber,
                     err |-> h.err, found |-> h.found, chat |-> h.chat]
    /\ Quiet

\* handleGetLastInteraction
handleGetLastInteraction ==
    /\ op = NoOp
    /\ \E jid \in {JidA, <<"1">>, Jid3s, Jid9s} :
       \E r \in GetLastInteraction(messages, chats, waDB, jid) :
          LET h == handleLookup(r, "no interaction found")
          IN  op' = [name |-> "GetLastInteraction", key |-> jid,
                     err |-> h.err, found |-> h.found, message |-> h.message]
    /\ Quiet

\* handleGetMessageContext: the store's error is the handler's
handleGetMessageContext ==
    /\ op = NoOp
    /\ \E id \in {m.id : m \in messages} \cup {MissingId}, count \in {0, 1} :
       \E r \in GetMessageContext(messages, chats, waDB, id, count, count) :
          op' = [name |-> "GetMessageContext", id |-> id, before |-> count, after |-> count,
                 err |-> r.err, Message |-> r.Message, Before |-> r.Before, After |-> r.After]
    /\ Quiet

ListChatsOpts ==
    [Query : {{}, {<<"a">>}}, Limit : {0, 1}, Page : {0, 1}, IncludeLastMessage : BOOLEAN,
     SortBy : {Empty, SortByLastActive, SortByName}]

\* one call of ListChats
ListChatsCall ==
    /\ op = NoOp
    /\ \E opts \in ListChatsOpts :
       \E r \in ListChats(messages, chats, waDB, opts) :
          op' = [name |-> "ListChats", opts |-> opts,
                 err |-> r.err, isNil |-> r.isNil, result |-> r.result]
    /\ Quiet

\* one call of SearchContacts
SearchContactsCall ==
    /\ op = NoOp
    /\ \E query \in {Empty, <<"1">>, <<"a">>, <<"G">>, <<"x">>} :
       \E r \in SearchContacts(chats, query) :
          op' = [name |-> "SearchContacts", query |-> query,
                 err |-> r.err, isNil |-> r.isNil, result |-> r.result]
    /\ Quiet

\* one call of GetContactChats
GetContactChatsCall ==
    /\ op = NoOp
    /\ \E jid \in {JidA, <<"1">>, Jid3s, Jid9s}, limit \in {0, 1}, page \in {0, 1} :
       \E r \in GetContactChats(messages, chats, waDB, jid, limit, page) :
          op' = [name |-> "GetContactChats", jid |-> jid, limit |-> limit, page |-> page,
                 err |-> r.err, isNil |-> r.isNil, result |-> r.result]
    /\ Quiet

NextChats ==
    \/ handleGetChat
    \/ handleGetDirectChatByContact
    \/ handleGetLastInteraction
    \/ handleGetMessageContext
    \/ ListChatsCall
    \/ SearchContactsCall
    \/ GetContactChatsCall

SpecChats == InitChats /\ [][NextChats]_vars

\* SearchContacts alone, also on the table that holds more contacts than it returns
InitSearch ==
    /\ \/ chats \in ChatTables /\ messages \in ChatArchives(chats)
       \/ chats = ManyChats /\ messages = {}
    /\ waDB = QueryWaDB
    /\ live = Idle /\ sync = Idle /\ del = Idle
    /\ lastCall = NoCall
    /\ lastStored = [j \in ChatJids |-> 0]
    /\ events = 0
    /\ op = NoOp

SpecSearch == InitSearch /\ [][SearchContactsCall]_vars

----------------------------------------------------------------------------
(* ListMessages statement by statement, beside DeleteChat and the writer *)

\* lines 391-410: the match query
MatchPages(msgs, chs, opts) ==
    LET limit == IF opts.Limit = 0 THEN DefaultLimit ELSE opts.Limit
    IN  {LimitOffset(o, limit, PageOffset(opts.Page, limit)) :
            o \in OrderByTimestamp({r \in JoinedRows(msgs, chs) : Matches(r, opts)}, TRUE)}

ContextCount(count) == IF count = 0 THEN DefaultListContext ELSE count

\* the call returns: result is nil until a row was appended to it
Returned(o, rows, isNil) ==
    [name |-> "ListMessages", opts |-> o.opts, page |-> o.page, err |-> "nil",
     result |-> Dicts(rows, o.cache), isNil |-> isNil,
     failed |-> o.failed, windows |-> o.windows]

\* the loop goes to the next match, or is over
NextMatch(o) ==
    IF o.i < Len(o.page) THEN [o EXCEPT !.pc = "target", !.i = o.i + 1]
    ELSE Returned(o, o.rows, o.rows = <<>>)

\* the mutant of ExpansionFailed: the call ends with the error of the expansion
ExpansionFailedEnds(o) ==
    [Returned([o EXCEPT !.failed = o.failed \cup {o.i}], <<>>, TRUE)
        EXCEPT !.err = "get message context"]

\* lines 419-421: the error of getMessageContextRaw, and continue
ExpansionFailed(o) == NextMatch([o EXCEPT !.failed = o.failed \cup {o.i}])

RaceArchives ==
    {{QueryRow(1, JidA, 1), QueryRow(1, JidB, 2)},
     {QueryRow(1, JidA, 1), QueryRow(2, JidA, 2), QueryRow(3, JidA, 3)},
     {QueryRow(2, JidA, 1), QueryRow(3, JidA, 2), QueryRow(1, JidB, 2)}}

RaceOpts ==
    {ListOpts(f, l, 0, c, 0, 0) :
        f \in {NoFilter, [NoFilter EXCEPT !.ChatJID = {JidA}]}, l \in {0, 1}, c \in BOOLEAN}

InitRace ==
    /\ messages \in RaceArchives
    /\ chats = QueryChats
    /\ waDB = QueryWaDB
    /\ live = Idle /\ sync = Idle /\ del = Idle
    /\ lastCall = NoCall
    /\ lastStored = [j \in ChatJids |-> 0]
    /\ events = 0
    /\ op = NoOp

Reading == UNCHANGED <<chats, messages, waDB, live, sync, del, lastCall, lastStored, events>>

\* lines 396-410
ListMatch ==
    /\ op = NoOp
    /\ \E opts \in RaceOpts : \E page \in MatchPages(messages, chats, opts) :
          op' = [name |-> "listing", pc |-> "cache", opts |-> opts, page |-> page,
                 cache |-> EmptyCache, i |-> 1, rows |-> <<>>, window |-> <<>>,
                 windows |-> <<>>, failed |-> {}]
    /\ Reading

\* line 412, and lines 432-436 when there is nothing to expand
ListCache ==
    /\ op.name = "listing" /\ op.pc = "cache"
    /\ \E cache \in BuildSenderCache(chats, waDB) :
          LET o == [op EXCEPT !.cache = cache]
          IN  op' = IF o.opts.IncludeContext /\ Len(o.page) > 0
                    THEN [o EXCEPT !.pc = "target"]
                    ELSE Returned(o, o.page, FALSE)
    /\ Reading

\* lines 444-453: the target of the i-th match, looked up by id
ListTarget ==
    /\ op.name = "listing" /\ op.pc = "target"
    /\ IF TargetRows(messages, chats, op.page[op.i].id) = {}
       THEN op' = ExpansionFailed(op)
       ELSE \E t \in TargetRows(messages, chats, op.page[op.i].id) :
               op' = [op EXCEPT !.pc = "before", !.window = <<t>>]
    /\ Reading

\* lines 458-481
ListBefore ==
    /\ op.name = "listing" /\ op.pc = "before"
    /\ \E b \in BeforeRows(messages, chats, op.window[1], ContextCount(op.opts.ContextBefore)) :
          op' = [op EXCEPT !.pc = "after", !.window = b \o op.window]
    /\ Reading

\* lines 484-502 and 422-427
ListAfter ==
    /\ op.name = "listing" /\ op.pc = "after"
    /\ \E a \in AfterRows(messages, chats, op.window[Len(op.window)],
                          ContextCount(op.opts.ContextAfter)) :
          op' = NextMatch([op EXCEPT !.rows = AppendUnseen(op.rows, op.window \o a),
                                     !.windows = Append(op.windows, op.window \o a),
                                     !.window = <<>>])
    /\ Reading

ListMessagesSteps == ListMatch \/ ListCache \/ ListTarget \/ ListBefore \/ ListAfter

\* what the writer upserts while the query runs: a new message of chat A, and new
\* fields for message 1 of chat A
WriterArgs ==
    {MessageRow(4, JidA, <<"1">>, TextYo, 2, FALSE, NoMedia),
     MessageRow(1, JidA, OwnUser, Empty, 3, TRUE, ImageMedia)}

\* the rows that were ever upserted under a key
Upserts == UNION RaceArchives \cup WriterArgs

\* one StoreMessage of the writer
WriterStoreMessage ==
    /\ events < MaxEvents
    /\ events' = events + 1
    /\ \E row \in WriterArgs :
          LET r == StoreMessage(messages, chats, row)
          IN  /\ messages' = r.messages
              /\ lastCall' = [op |-> "StoreMessage", args |-> row, err |-> r.err,
                              replaced |-> {m \in messages : SameKey(m, row.id, row.chat_jid)}]
              /\ lastStored' = IF r.wrote
                               THEN [lastStored EXCEPT ![row.chat_jid] = row.timestamp]
                               ELSE lastStored
    /\ UNCHANGED <<chats, waDB, live, sync, del, op>>

NextRace == ListMessagesSteps \/ DeleteChat \/ WriterStoreMessage

SpecRace == InitRace /\ [][NextRace]_vars

----------------------------------------------------------------------------
(* BuildSenderCache on tables of the caller's choice *)

Jid1s == <<"1", "@", "s">>
Jid7l == <<"7", "@", "l">>
Jid7s == <<"7", "@", "s">>

\* the name a table gives to an identifier, told apart by table and identifier
SourceName(tag, jid) == <<tag, jid[1], jid[3]>>

\* chats of 1@s and 7@l, each absent, without a name or with one
CacheChatTables ==
    {{[jid |-> j, name |-> IF f[j] = 2 THEN SourceName("C", j) ELSE Empty,
       last_message_time |-> 1] : j \in {x \in {Jid1s, Jid7l} : f[x] # 0}} :
        f \in [{Jid1s, Jid7l} -> 0..2]}

\* contacts 1@s, 7@l and 7@s, each absent, without a name, with a full name or with a
\* push name only
CacheContactTables ==
    {{[their_jid |-> j,
       full_name |-> IF f[j] = 2 THEN SourceName("F", j) ELSE Empty,
       push_name |-> IF f[j] = 3 THEN SourceName("P", j) ELSE Empty] :
          j \in {x \in {Jid1s, Jid7l, Jid7s} : f[x] # 0}} :
        f \in [{Jid1s, Jid7l, Jid7s} -> 0..3]}

\* linked identifiers 7 and 9, both of phone number 1
CacheLidTables == SUBSET {[lid |-> <<"7">>, pn |-> <<"1">>], [lid |-> <<"9">>, pn |-> <<"1">>]}

\* whatsapp.db: not opened, or opened with each of its two queries working or failing
CacheWaDBs ==
    {NoWaDB} \cup
    {[open |-> TRUE, contactsOk |-> ok[1], contacts |-> cs, lidOk |-> ok[2], lids |-> ls] :
        ok \in {<<TRUE, TRUE>>, <<TRUE, FALSE>>, <<FALSE, TRUE>>},
        cs \in CacheContactTables, ls \in CacheLidTables}

InitCache ==
    /\ chats \in CacheChatTables
    /\ messages = {}
    /\ waDB \in CacheWaDBs
    /\ live = Idle /\ sync = Idle /\ del = Idle
    /\ lastCall = NoCall
    /\ lastStored = [j \in ChatJids |-> 0]
    /\ events = 0
    /\ op = NoOp

BuildSenderCacheCall ==
    /\ op = NoOp
    /\ \E cache \in BuildSenderCache(chats, waDB) :
          op' = [name |-> "BuildSenderCache", cache |-> cache]
    /\ UNCHANGED <<chats, messages, waDB, live, sync, del, lastCall, lastStored, events>>

SpecCache == InitCache /\ [][BuildSenderCacheCall]_vars

----------------------------------------------------------------------------
(* Claims about the write side *)

\* the step is a call StoreMessage(row)
StoreMessageCalled(row) ==
    /\ lastCall' # lastCall
    /\ lastCall'.op = "StoreMessage"
    /\ lastCall'.args = row

KeyRows(msgs, row) == {m \in msgs : SameKey(m, row.id, row.chat_jid)}
OtherRows(msgs, row) == {m \in msgs : ~SameKey(m, row.id, row.chat_jid)}

\* the row of the call's key that the call found has another content
SecondCall(row) == \E m \in KeyRows(messages, row) : m.content # row.content

\* C7 as stated: after StoreMessage is called a second time for a key, with a content
\* different from the stored one, exactly one row has that key, all its columns are
\* those of the second call, and the rows of the other keys are unchanged.
C7_Original ==
    [][\A row \in StoreArgs :
          StoreMessageCalled(row) /\ SecondCall(row)
              => /\ KeyRows(messages', row) = {row}
                 /\ OtherRows(messages', row) = OtherRows(messages, row)]_vars

\* C7 as amended: the same, for a second call that carries a content or a media type
\* and finds the chat row of its chat key, that is, a call that returns no error and
\* is not skipped.
C7_LastWriteWins ==
    [][\A row \in StoreArgs :
          (/\ StoreMessageCalled(row) /\ SecondCall(row)
           /\ ~(row.content = Empty /\ row.media_type = Empty)
           /\ ChatExists(chats, row.chat_jid))
              => (/\ KeyRows(messages', row) = {row}
                  /\ OtherRows(messages', row) = OtherRows(messages, row)
                  /\ lastCall'.err = "nil")]_vars

\* a second call with another content has replaced the row of its key, beside a row of
\* another key
C7_Witness ==
    /\ lastCall.op = "StoreMessage"
    /\ lastCall.err = "nil"
    /\ \E m \in lastCall.replaced : m.content # lastCall.args.content
    /\ lastCall.args \in messages
    /\ OtherRows(messages, lastCall.args) # {}

\* C8: StoreMessage with empty content and no media type returns no error and leaves
\* the rows of messages as they were, also when a row of the same key is stored.
C8_EmptyIsNoOp ==
    [][\A row \in StoreArgs :
          StoreMessageCalled(row) /\ row.content = Empty /\ row.media_type = Empty
              => messages' = messages /\ lastCall'.err = "nil"]_vars

\* an empty message was passed for a key that has a row, and the row is still there
C8_Witness ==
    /\ lastCall.op = "StoreMessage"
    /\ lastCall.args.content = Empty /\ lastCall.args.media_type = Empty
    /\ lastCall.replaced # {}
    /\ lastCall.replaced \subseteq messages

\* a handleMessage call for chat j, or a history-sync conversation of chat j, ends
IngestionEnds(j) ==
    \/ live.pc # "idle" /\ live'.pc = "idle" /\ live.ev.chat = j
    \/ sync.pc # "idle" /\ sync'.pc = "idle" /\ sync.conv.id = j

\* C9 as stated: when an ingestion event for a chat ends, the chat's last_message_time
\* is the timestamp of the message stored last for that chat.
C9_Original ==
    [][\A j \in ChatJids :
          IngestionEnds(j) /\ lastStored'[j] # 0
              => \E c \in chats' : c.jid = j /\ c.last_message_time = lastStored'[j]]_vars

----------------------------------------------------------------------------
(* Claims about ListMessages *)

ListedWithContext == op.name = "ListMessages" /\ op.opts.IncludeContext

\* C1: ListMessages with includeContext=true never emits the same message id twice in
\* one response, whatever the archive, the filters, the limit, the page and the
\* window sizes.
C1_NoIdTwice ==
    ListedWithContext
        => \A i, j \in 1..Len(op.result) : i # j => op.result[i].id # op.result[j].id

\* the windows of the matches held more rows than the response: some were left out
C1_Witness ==
    /\ ListedWithContext
    /\ Len(op.result) >= 2
    /\ op.read > Len(op.result)

\* the reference of C2: each match's own window, in match order, a message left out
\* when its id was already emitted
RECURSIVE C2_Windows(_, _, _, _, _, _)
C2_Windows(msgs, chs, page, i, before, after) ==
    IF i > Len(page) THEN {<<>>}
    ELSE {b \o <<page[i]>> \o a \o rest :
             b \in BeforeRows(msgs, chs, page[i], before),
             a \in AfterRows(msgs, chs, page[i], after),
             rest \in C2_Windows(msgs, chs, page, i + 1, before, after)}

RECURSIVE C2_FirstOfEachId(_)
C2_FirstOfEachId(rows) ==
    IF rows = <<>> THEN <<>>
    ELSE LET front == C2_FirstOfEachId(SubSeq(rows, 1, Len(rows) - 1))
             last == rows[Len(rows)]
         IN  IF \E i \in 1..Len(front) : front[i].id = last.id THEN front
             ELSE Append(front, last)

C2_Reference(msgs, chs, wa, opts) ==
    LET limit == IF opts.Limit = 0 THEN DefaultLimit ELSE opts.Limit
        before == IF opts.ContextBefore = 0 THEN DefaultListContext ELSE opts.ContextBefore
        after == IF opts.ContextAfter = 0 THEN DefaultListContext ELSE opts.ContextAfter
        sorted == OrderByTimestamp({r \in JoinedRows(msgs, chs) : Matches(r, opts)}, TRUE)
    IN  {Dicts(C2_FirstOfEachId(w), cache) :
            w \in UNION {C2_Windows(msgs, chs, LimitOffset(o, limit, opts.Page * limit),
                                    1, before, after) : o \in sorted},
            cache \in BuildSenderCache(chs, wa)}

\* C2 as stated: the result of ListMessages(includeContext=true) is the page of matches
\* (filters, newest first, limit and page*limit applied before any expansion), each
\* match replaced by its window (before ascending, target, after ascending), in match
\* order, without the messages whose id an earlier window emitted, and not re-sorted.
C2_Original ==
    ListedWithContext => op.result \in C2_Reference(messages, chats, waDB, op.opts)

\* no two stored messages carry the same timestamp
DistinctTimestamps == \A m, n \in messages : m.timestamp = n.timestamp => m = n

Pages01 == op.name = "ListMessagesPages"

PagesAgree ==
    /\ \A i \in 1..Len(op.page0), j \in 1..Len(op.page1) : op.page0[i] # op.page1[j]
    /\ op.page0 \o op.page1 = op.both

\* C6 as stated: on an unmodified archive, for a limit L >= 1 and no filters, pages 0
\* and 1 share no message and page 0 followed by page 1 is the result of limit 2L,
\* page 0, the other parameters being the same in the three calls.
C6_Original == Pages01 => PagesAgree

\* C6 as amended: the same for calls without context expansion, on an archive where no
\* two messages carry the same timestamp.
C6_PagesWithoutContext ==
    (Pages01 /\ ~op.opts.IncludeContext /\ DistinctTimestamps) => PagesAgree

\* two full pages were read, without context, from an archive without equal timestamps
C6_Witness ==
    /\ Pages01
    /\ ~op.opts.IncludeContext
    /\ DistinctTimestamps
    /\ op.opts.Limit = 2
    /\ Len(op.page0) = 2
    /\ Len(op.page1) = 2

----------------------------------------------------------------------------
(* Claims about GetMessageContext *)

ContextReturned == op.name = "GetMessageContext" /\ ~op.err

\* every message of seq is earlier (later) than the target
AllEarlier(seq, t) == \A i \in 1..Len(seq) : seq[i].timestamp < t.timestamp
AllLater(seq, t) == \A i \in 1..Len(seq) : seq[i].timestamp > t.timestamp

StrictlyAscending(seq) ==
    \A i \in 1..(Len(seq) - 1) : seq[i].timestamp < seq[i + 1].timestamp

NeverDescending(seq) ==
    \A i \in 1..(Len(seq) - 1) : seq[i].timestamp <= seq[i + 1].timestamp

\* C3 as stated: in every window of GetMessageContext the before sequence is strictly
\* ascending by timestamp and strictly earlier than the target, the after sequence
\* strictly ascending and strictly later than the target, also where several messages
\* of the chat carry the same timestamp.
C3_Original ==
    ContextReturned
        => \A t \in op.Message :
              /\ StrictlyAscending(op.Before) /\ AllEarlier(op.Before, t)
              /\ StrictlyAscending(op.After) /\ AllLater(op.After, t)

\* C3 as amended: the before sequence never descends in timestamp and each of its
\* messages is strictly earlier than the target; the after sequence never descends and
\* each of its messages is strictly later than the target. Messages with the same
\* timestamp follow each other in an order that is not fixed.
C3_Chronological ==
    ContextReturned
        => \A t \in op.Message :
              /\ NeverDescending(op.Before) /\ AllEarlier(op.Before, t)
              /\ NeverDescending(op.After) /\ AllLater(op.After, t)

\* a window whose before sequence holds two messages of the same timestamp
C3_Witness ==
    /\ ContextReturned
    /\ Len(op.Before) >= 2
    /\ op.Before[1].timestamp = op.Before[2].timestamp
    /\ \A t \in op.Message : AllEarlier(op.Before, t)

\* C4 as stated: the before sequence has at most `before` messages and the after
\* sequence at most `after` messages, for every pair of counts the caller requests.
C4_Original ==
    ContextReturned => Len(op.Before) <= op.before /\ Len(op.After) <= op.after

AtMost(seq, count) ==
    /\ count >= 1 => Len(seq) <= count
    /\ count = 0 => Len(seq) <= DefaultMessageContext

\* C4 as amended: a side has at most as many messages as the count requested for it
\* when that count is 1 or more, and at most 5 when the count is 0, which stands for
\* the default; a negative count sets no limit.
C4_AtMostRequested ==
    ContextReturned => AtMost(op.Before, op.before) /\ AtMost(op.After, op.after)

EarlierInChat(t) ==
    {r \in JoinedRows(messages, chats) : r.chatJID = t.chat_jid /\ r.timestamp < t.timestamp}

LaterInChat(t) ==
    {r \in JoinedRows(messages, chats) : r.chatJID = t.chat_jid /\ r.timestamp > t.timestamp}

\* the default cut the messages before, a requested count cut the messages after
C4_Witness ==
    /\ ContextReturned
    /\ op.before = 0 /\ Len(op.Before) = DefaultMessageContext
    /\ op.after >= 1 /\ Len(op.After) = op.after
    /\ \A t \in op.Message :
          /\ Cardinality(EarlierInChat(t)) > DefaultMessageContext
          /\ Cardinality(LaterInChat(t)) > op.after

Min(a, b) == IF a <= b THEN a ELSE b

\* seq lists, once each, count messages of S (all of S when it has fewer), none of
\* the others being nearer to the target than a listed one
Nearest(seq, S, count, cache, below) ==
    LET listed == {r \in S : \E i \in 1..Len(seq) : seq[i] = rawToDict(r, cache)}
    IN  /\ Len(seq) = Min(count, Cardinality(S))
        /\ Cardinality(listed) = Len(seq)
        /\ \A i \in 1..Len(seq) : \E r \in S : seq[i] = rawToDict(r, cache)
        /\ \A x \in listed, y \in S \ listed :
              IF below THEN y.timestamp <= x.timestamp ELSE x.timestamp <= y.timestamp

\* the count in force: 5 for 0, every message for a negative count
InForce(count, n) ==
    IF count = 0 THEN DefaultMessageContext ELSE IF count < 0 THEN n ELSE count

\* the response is the target with the nearest messages of its chat, as many as
\* requested or as many as the counts in force say
Returns(asRequested) ==
    \E t \in {r \in JoinedRows(messages, chats) : r.id = op.id},
       cache \in BuildSenderCache(chats, waDB) :
       LET d == rawToDict(t, cache)
           n == Cardinality(EarlierInChat(d))
           m == Cardinality(LaterInChat(d))
       IN  /\ op.Message = {d}
           /\ Nearest(op.Before, EarlierInChat(d),
                      IF asRequested THEN op.before ELSE InForce(op.before, n), cache, TRUE)
           /\ Nearest(op.After, LaterInChat(d),
                      IF asRequested THEN op.after ELSE InForce(op.after, m), cache, FALSE)

\* C5 as stated: GetMessageContext(id, b, a) returns the target as Message, as Before
\* exactly the min(b, n) messages of the target's chat with the greatest timestamps
\* strictly below the target's, as After exactly the min(a, m) messages of that chat
\* with the smallest timestamps strictly above it, and no message of another chat.
C5_Original == ContextReturned => Returns(TRUE)

\* C5 as amended: the same with the counts in force, b' and a', in place of b and a:
\* a count of 0 stands for 5 and a negative count for every message on that side.
C5_NearestInChat == ContextReturned => Returns(FALSE)

\* the count cut the messages before, while another chat holds an earlier message
C5_Witness ==
    /\ ContextReturned
    /\ op.before >= 1 /\ Len(op.Before) = op.before
    /\ \A t \in op.Message :
          /\ Cardinality(EarlierInChat(t)) > op.before
          /\ \E m \in messages : m.chat_jid # t.chat_jid /\ m.timestamp < t.timestamp

----------------------------------------------------------------------------
(* Claims about the projector *)

\* the part of an identifier before its first "@"; the identifier when it has none
LocalPart(s) ==
    IF \E i \in 1..Len(s) : s[i] = "@"
    THEN SubSeq(s, 1, (CHOOSE i \in 1..Len(s) : s[i] = "@" /\ \A j \in 1..(i - 1) : s[j] # "@") - 1)
    ELSE s

\* C10: the display name is "Me" for an own message, whatever the cache holds; else
\* cache[sender] when present, else cache[local part of the sender] when present, else
\* the raw sender.
C10_DisplayName ==
    op.name = "resolveMessageSender"
        => op.result =
              IF op.isFromMe THEN Me
              ELSE IF op.sender \in DOMAIN op.cache THEN op.cache[op.sender]
              ELSE IF LocalPart(op.sender) \in DOMAIN op.cache
              THEN op.cache[LocalPart(op.sender)]
              ELSE op.sender

\* a sender given as a full JID was resolved through its local part
C10_Witness ==
    /\ op.name = "resolveMessageSender"
    /\ ~op.isFromMe
    /\ op.sender \notin DOMAIN op.cache
    /\ LocalPart(op.sender) \in DOMAIN op.cache
    /\ op.result = op.cache[LocalPart(op.sender)]
    /\ op.result # op.sender

----------------------------------------------------------------------------
(* Claims about the sender cache *)

CacheBuilt == op.name = "BuildSenderCache"

\* the name the contact directory gives to an identifier: the full name, else the push
\* name; none when the directory cannot be read
DirectoryName(jid) ==
    IF waDB.open /\ waDB.contactsOk /\ \E r \in waDB.contacts : r.their_jid = jid
    THEN LET r == CHOOSE r \in waDB.contacts : r.their_jid = jid
         IN  IF r.full_name # Empty THEN r.full_name ELSE r.push_name
    ELSE Empty

\* the identifiers named by both the chat table and the contact directory
NamedTwice ==
    {c.jid : c \in {x \in chats : x.name # Empty /\ DirectoryName(x.jid) # Empty}}

MapsToDirectoryName(jid) ==
    /\ Get(op.cache, jid) = DirectoryName(jid)
    /\ Get(op.cache, LocalPart(jid)) = DirectoryName(jid)
    /\ resolveSender(jid, op.cache) = DirectoryName(jid)
    /\ resolveSender(LocalPart(jid), op.cache) = DirectoryName(jid)

\* C11 as stated: an identifier with a non-empty name in the chat table and in the
\* contact directory is mapped, in full and by its local part, to the directory name,
\* and a sender given in either form resolves to the directory name.
C11_Original == CacheBuilt => \A jid \in NamedTwice : MapsToDirectoryName(jid)

\* the linkage rows the cache reads
LinkageRows == IF waDB.open /\ waDB.contactsOk /\ waDB.lidOk THEN waDB.lids ELSE {}

\* no other named directory identifier has the local part of jid, and no linkage row
\* has it as its linked identifier
KeysOwned(jid) ==
    /\ \A r \in waDB.contacts :
          (r.their_jid # jid /\ LocalPart(r.their_jid) = LocalPart(jid))
              => DirectoryName(r.their_jid) = Empty
    /\ \A l \in LinkageRows : l.lid # LocalPart(jid)

\* C11 as amended: the same for an identifier whose local part is the local part of no
\* other named directory identifier and the linked identifier of no linkage row.
C11_DirectoryWins ==
    CacheBuilt => \A jid \in {j \in NamedTwice : KeysOwned(j)} : MapsToDirectoryName(jid)

\* the directory name replaced a chat name under both keys, while another unnamed
\* contact and a linkage row were read
C11_Witness ==
    /\ CacheBuilt
    /\ \E jid \in NamedTwice :
          /\ KeysOwned(jid)
          /\ op.cache[jid] = DirectoryName(jid)
          /\ op.cache[LocalPart(jid)] = DirectoryName(jid)
          /\ \E c \in chats : c.jid = jid /\ c.name # op.cache[jid]
    /\ LinkageRows # {}

\* the linkage rows of a linkage table that can be read
StoredLinkageRows == IF waDB.open /\ waDB.lidOk THEN waDB.lids ELSE {}

\* the caches that sources 1 and 2 alone produce
CachesBeforeLinkage == BuildSenderCache(chats, [waDB EXCEPT !.lidOk = FALSE])

\* the keys of a linkage row hold the name; with no name they are as sources 1 and 2
\* left them
LinkedAs(l, name, before) ==
    IF name # Empty
    THEN /\ Get(op.cache, l.lid \o LidSuffix) = name
         /\ Get(op.cache, l.lid) = name
    ELSE \A k \in {l.lid \o LidSuffix, l.lid} :
            /\ k \in DOMAIN op.cache <=> k \in DOMAIN before
            /\ Get(op.cache, k) = Get(before, k)

NameBeforeLinkage(pn, before) ==
    IF ~(waDB.open /\ waDB.contactsOk) THEN Empty
    ELSE IF Get(before, pn \o PhoneSuffix) # Empty THEN Get(before, pn \o PhoneSuffix)
    ELSE Get(before, pn)

----------------------------------------------------------------------------
(* Claims about the lookups *)

\* the call was a lookup and nothing stored matches what it asked for
NothingMatches ==
    \/ /\ op.name = "GetChat"
       /\ ~\E c \in chats : c.jid = op.key
    \/ /\ op.name = "GetDirectChatByContact"
       /\ ~\E c \in chats : Like(c.jid, op.key) /\ ~LikeGroup(c.jid)
    \/ /\ op.name = "GetLastInteraction"
       /\ ~\E m \in messages : m.sender = op.key \/ m.chat_jid = op.key
    \/ /\ op.name = "GetMessageContext"
       /\ ~\E m \in messages : m.id = op.id

\* the failure that says that nothing was found, and no view beside it
NotFound ==
    \/ op.name = "GetChat" /\ op.err = "chat not found" /\ op.chat = {}
    \/ op.name = "GetDirectChatByContact" /\ op.err = "no direct chat found" /\ op.chat = {}
    \/ op.name = "GetLastInteraction" /\ op.err = "no interaction found" /\ op.message = {}
    \/ op.name = "GetMessageContext" /\ op.err /\ op.Message = {}

\* C13: GetChat, GetDirectChatByContact, GetLastInteraction and GetMessageContext,
\* when no stored entity matches, fail with the not-found failure and return no view.
C13_Original == NothingMatches => NotFound

\* the lookups with the last message asked for: nothing found is a not-found failure
C13_WithLastMessage ==
    (NothingMatches /\ (op.name = "GetChat" => op.includeLastMessage)) => NotFound

C13_Witness ==
    /\ NothingMatches
    /\ op.name = "GetChat" /\ op.includeLastMessage
    /\ op.err = "chat not found"

----------------------------------------------------------------------------
(* Claims about the lists *)

ListReturned ==
    /\ op.name \in {"ListMessages", "ListChats", "SearchContacts", "GetContactChats"}
    /\ op.err = "nil"

\* C14: ListMessages (with and without context), ListChats, SearchContacts and
\* GetContactChats return an empty sequence, never a null value, when the successful
\* result has no element.
C14_Original == (ListReturned /\ Len(op.result) = 0) => ~op.isNil

\* the lists that are read with one statement return an empty sequence
C14_OneStatement ==
    (ListReturned /\ op.name # "ListMessages" /\ Len(op.result) = 0) => ~op.isNil

\* ListMessages returns an empty sequence when nothing matched or no context was asked
C14_NoExpansion ==
    (ListReturned /\ op.name = "ListMessages" /\ Len(op.result) = 0
        /\ (~op.opts.IncludeContext \/ Len(op.page) = 0)) => ~op.isNil

----------------------------------------------------------------------------
(* Claims about the messages of one chat *)

\* ListMessages was asked for the first page of one chat, without context, and the
\* limit in force is at least the number of messages of that chat
WholeChatListed ==
    /\ op.name = "ListMessages"
    /\ ~op.opts.IncludeContext /\ op.opts.Page = 0
    /\ op.opts.ChatJID # {}
    /\ op.opts.After = {} /\ op.opts.Before = {}
    /\ op.opts.SenderPhoneNumber = {} /\ op.opts.Query = {}
    /\ \A k \in op.opts.ChatJID :
          (IF op.opts.Limit = 0 THEN DefaultLimit ELSE op.opts.Limit)
              >= Cardinality({m \in messages : m.chat_jid = k})

\* the result shows the stored message, with the media type when it has one
Returns1(m, d) ==
    /\ d.id = m.id /\ d.chat_jid = m.chat_jid /\ d.sender_jid = m.sender
    /\ d.content = m.content /\ d.timestamp = m.timestamp /\ d.is_from_me = m.is_from_me
    /\ d.media_type = (IF m.media_type = Empty THEN {} ELSE {m.media_type})

\* C17: ListMessages(chatKey=k, includeContext=false) with a limit of at least the
\* number of messages of k returns exactly the stored messages of k, newest first; a
\* message stored with empty text and a media type has empty content and its media type.
C17_WholeChat ==
    WholeChatListed =>
        \A k \in op.opts.ChatJID :
            LET stored == {m \in messages : m.chat_jid = k}
            IN  /\ Len(op.result) = Cardinality(stored)
                /\ \A m \in stored : \E j \in 1..Len(op.result) : Returns1(m, op.result[j])
                /\ \A j \in 1..Len(op.result) : \E m \in stored : Returns1(m, op.result[j])
                /\ \A i, j \in 1..Len(op.result) :
                      i < j => op.result[i].timestamp >= op.result[j].timestamp
                /\ \A m \in stored :
                      (m.content = Empty /\ m.media_type # Empty) =>
                          \E j \in 1..Len(op.result) :
                              /\ op.result[j].id = m.id
                              /\ op.result[j].content = Empty
                              /\ op.result[j].media_type = {m.media_type}

C17_Witness ==
    /\ WholeChatListed
    /\ op.opts.ChatJID = {JidA}
    /\ \E m \in messages : m.chat_jid = JidB
    /\ Len(op.result) = 3
    /\ op.result[1].timestamp > op.result[3].timestamp
    /\ \E j \in 1..3 : op.result[j].content = Empty /\ op.result[j].media_type = {MediaImage}

----------------------------------------------------------------------------
(* Claims about ListMessages beside the writers *)

\* ListMessages returned, and the expansion of one of its matches had failed
ExpansionHadFailed == op.name = "ListMessages" /\ op.failed # {}

\* the rows of the windows that the call read
WindowRows == UNION {{op.windows[k][i] : i \in 1..Len(op.windows[k])} : k \in 1..Len(op.windows)}

\* the result shows the row
Shown(r) ==
    \E j \in 1..Len(op.result) :
        /\ op.result[j].id = r.id /\ op.result[j].chat_jid = r.chatJID
        /\ op.result[j].timestamp = r.timestamp /\ op.result[j].content = r.content

\* C15: when the expansion of one matched message fails, ListMessages with context
\* still succeeds, every other match has its window, and every message of these windows
\* is in the result (once for each id).
C15_OthersKept ==
    ExpansionHadFailed =>
        /\ op.err = "nil"
        /\ Len(op.windows) = Len(op.page) - Cardinality(op.failed)
        /\ \A r \in WindowRows : \E r2 \in WindowRows : r2.id = r.id /\ Shown(r2)

C15_Witness ==
    /\ ExpansionHadFailed
    /\ op.err = "nil"
    /\ Len(op.windows) >= 1 /\ Len(op.result) >= 1
    /\ del.pc # "idle"


\* the messages that ListMessages has read or returned by now
ReadRows ==
    IF op.name = "listing"
    THEN {op.page[i] : i \in 1..Len(op.page)} \cup {op.window[i] : i \in 1..Len(op.window)}
            \cup {op.rows[i] : i \in 1..Len(op.rows)}
    ELSE {}

\* all the columns of the row are those of one upsert of its key
OneUpsert(id, chatJID, sender, content, timestamp, isFromMe, mediaType) ==
    \E u \in Upserts :
        /\ u.id = id /\ u.chat_jid = chatJID
        /\ u.sender = sender /\ u.content = content /\ u.timestamp = timestamp
        /\ u.is_from_me = isFromMe /\ u.media_type = mediaType

\* C16: under every interleaving of the writer's StoreMessage with the statements of
\* ListMessages, every message that a statement reads and every message that the call
\* returns has its sender, content, timestamp, is-from-me and media type from one upsert.
C16_NoPartialWrite ==
    /\ \A r \in ReadRows :
          OneUpsert(r.id, r.chatJID, r.sender, r.content, r.timestamp, r.isFromMe, r.mediaType)
    /\ op.name = "ListMessages" =>
          \A j \in 1..Len(op.result) :
              LET d == op.result[j]
              IN  OneUpsert(d.id, d.chat_jid, d.sender_jid, d.content, d.timestamp,
                            d.is_from_me, IF d.media_type = {} THEN Empty
                                          ELSE CHOOSE x \in d.media_type : TRUE)

\* the call matched message 1 of chat A as it was first stored, and returns it as the
\* writer stored it while the call ran
C16_Witness ==
    /\ op.name = "ListMessages"
    /\ \E i \in 1..Len(op.page) :
          op.page[i].id = 1 /\ op.page[i].chatJID = JidA /\ op.page[i].timestamp = 1
    /\ \E j \in 1..Len(op.result) :
          /\ op.result[j].id = 1 /\ op.result[j].chat_jid = JidA
          /\ op.result[j].timestamp = 3 /\ op.result[j].media_type = {MediaImage}

----------------------------------------------------------------------------
(* Claims about the chat operations *)

\* the name of a returned contact
NameOf(d) == CHOOSE n \in d.name : TRUE

\* d comes before e, or beside it, in the order by name and then by key
NameThenKey(d, e) ==
    \/ TextLess(NameOf(d), NameOf(e))
    \/ NameOf(d) = NameOf(e) /\ (d.jid = e.jid \/ TextLess(d.jid, e.jid))

\* C18: SearchContacts never returns a chat key that ends in the group suffix, returns
\* at most 50 results, and returns them sorted by name and then by key.
C18_Contacts ==
    op.name = "SearchContacts" =>
        /\ op.err = "nil"
        /\ \A i \in 1..Len(op.result) : ~HasSuffix(op.result[i].jid, GroupSuffix)
        /\ Len(op.result) <= SearchLimit
        /\ \A i, j \in 1..Len(op.result) : i < j => NameThenKey(op.result[i], op.result[j])

\* more than 50 chats match, a group among them
C18_Witness ==
    /\ op.name = "SearchContacts"
    /\ Len(op.result) = SearchLimit
    /\ Cardinality({c \in chats : Like(c.name, op.query) \/ Like(c.jid, op.query)}) > SearchLimit
    /\ \E c \in chats : HasSuffix(c.jid, GroupSuffix)
    /\ \E i \in 1..Len(op.result) : NameOf(op.result[i]) # Empty


\* ListChats returned a list
ChatsListed == op.name = "ListChats" /\ op.err = "nil"

\* the rows that the call's filter selects, the limit and the offset in force
ListedRows ==
    {r \in LastMessageRows(messages, chats) :
        \A q \in op.opts.Query : Like(r.name, q) \/ Like(r.jid, q)}

ListedLimit == IF op.opts.Limit = 0 THEN DefaultLimit ELSE op.opts.Limit
ListedOffset == op.opts.Page * ListedLimit

\* the order that the call asked for: a row of name n and time t is strictly before
\* a row of name n2 and time t2
Before(n, t, n2, t2) ==
    IF op.opts.SortBy \in {Empty, SortByLastActive} THEN t > t2 ELSE TextLess(n, n2)

C19_WitnessByName ==
    /\ ChatsListed
    /\ op.opts.SortBy = SortByName /\ op.opts.Page = 0
    /\ Len(op.result) >= 2
    /\ TextLess(NameOf(op.result[1]), NameOf(op.result[2]))


\* GetContactChats returned its first page under a limit of at least the number of chats
ContactChatsListed ==
    /\ op.name = "GetContactChats" /\ op.err = "nil"
    /\ op.page = 0
    /\ (IF op.limit = 0 THEN DefaultLimit ELSE op.limit) >= Cardinality(chats)

\* the keys of the chats that involve the identifier
ChatsOf(jid) ==
    {c.jid : c \in {x \in chats : \/ x.jid = jid
                                  \/ \E m \in messages : m.chat_jid = x.jid /\ m.sender = jid}}

\* C20: GetContactChats(identifier) with a limit of at least the number of chats returns
\* the chats whose key is the identifier, with or without messages, and the chats in
\* which a stored message has the identifier as sender.
C20_Original ==
    ContactChatsListed => {op.result[i].jid : i \in 1..Len(op.result)} = ChatsOf(op.jid)

\* the chats returned are among those that involve the identifier, and each of them
\* holds a message
C20_Among ==
    ContactChatsListed =>
        /\ {op.result[i].jid : i \in 1..Len(op.result)} \subseteq ChatsOf(op.jid)
        /\ \A i \in 1..Len(op.result) : \E m \in messages : m.chat_jid = op.result[i].jid

----------------------------------------------------------------------------
(* Claims about the projected views *)

\* the chat views and the message views that the call returned
ChatViews ==
    IF op.name \in {"GetChat", "GetDirectChatByContact"} THEN op.chat
    ELSE IF op.name \in {"ListChats", "GetContactChats"}
    THEN {op.result[i] : i \in 1..Len(op.result)}
    ELSE {}

MessageViews ==
    IF op.name = "GetLastInteraction" THEN op.message
    ELSE IF op.name = "GetMessageContext"
    THEN op.Message \cup {op.Before[i] : i \in 1..Len(op.Before)}
                    \cup {op.After[i] : i \in 1..Len(op.After)}
    ELSE {}

\* the message view has no optional field that is present and empty
C21_MessageViews ==
    \A d \in MessageViews : Empty \notin d.chat_name /\ Empty \notin d.media_type

\* C21: a projected view carries an optional field only when the stored column is
\* not null and not empty: the chat name and media type of a message view, the name,
\* last-message content and last sender of a chat view are never present and empty.
C21_Original ==
    /\ C21_MessageViews
    /\ \A d \in ChatViews :
          Empty \notin d.name /\ Empty \notin d.last_message /\ Empty \notin d.last_sender

----------------------------------------------------------------------------
(* Claims about the sources of the sender cache *)

NamedChats == {c \in chats : c.name # Empty}

\* the name of a contact: the full name, else the push name
ContactName(r) == IF r.full_name = Empty THEN r.push_name ELSE r.full_name

NamedContacts == {r \in waDB.contacts : ContactName(r) # Empty}

\* the entry that the chat table gives to the key: the name of the chat of that key,
\* or of a chat with that local part
ChatEntry(k, v) ==
    IF \E c \in NamedChats : c.jid = k
    THEN \E c \in NamedChats : c.jid = k /\ c.name = v
    ELSE \E c \in NamedChats : LocalPart(c.jid) = k /\ c.name = v

\* the entry that the contact directory gives to the key
DirectoryEntry(k, v) ==
    IF \E r \in NamedContacts : r.their_jid = k
    THEN \E r \in NamedContacts : r.their_jid = k /\ ContactName(r) = v
    ELSE \E r \in NamedContacts : LocalPart(r.their_jid) = k /\ ContactName(r) = v

ChatKeysOf == {c.jid : c \in NamedChats} \cup {LocalPart(c.jid) : c \in NamedChats}

DirectoryKeys ==
    {r.their_jid : r \in NamedContacts} \cup {LocalPart(r.their_jid) : r \in NamedContacts}

\* C22: BuildSenderCache returns a mapping in every case. When whatsapp.db is not open
\* or its contacts query fails, the mapping is exactly the entries of the chat table;
\* when only the linkage query fails, it is these entries overwritten by the entries
\* of the contact directory.
C22_Degrades ==
    CacheBuilt =>
        /\ (~waDB.open \/ ~waDB.contactsOk) =>
              /\ DOMAIN op.cache = ChatKeysOf
              /\ \A k \in DOMAIN op.cache : ChatEntry(k, op.cache[k])
        /\ (waDB.open /\ waDB.contactsOk /\ ~waDB.lidOk) =>
              /\ DOMAIN op.cache = ChatKeysOf \cup DirectoryKeys
              /\ \A k \in DOMAIN op.cache :
                    IF k \in DirectoryKeys THEN DirectoryEntry(k, op.cache[k])
                    ELSE ChatEntry(k, op.cache[k])

\* the contacts query fails on a directory that names a contact and has a linkage row,
\* and the cache holds the chat table's entries
C22_Witness ==
    /\ CacheBuilt
    /\ waDB.open /\ ~waDB.contactsOk
    /\ NamedContacts # {} /\ waDB.lids # {}
    /\ NamedChats # {} /\ DOMAIN op.cache # {}

\* only the linkage query fails, and a directory name has replaced a chat-table name
C22_WitnessLinkage ==
    /\ CacheBuilt
    /\ waDB.open /\ waDB.contactsOk /\ ~waDB.lidOk /\ waDB.lids # {}
    /\ \E c \in NamedChats : c.jid \in DirectoryKeys /\ op.cache[c.jid] # c.name
    /\ \E c \in NamedChats : c.jid \notin DirectoryKeys

----------------------------------------------------------------------------
(* Claims about the key of a message *)

\* the result shows the matched row under its own chat key
ShownInChat(r) ==
    \E j \in 1..Len(op.result) : op.result[j].id = r.id /\ op.result[j].chat_jid = r.chatJID

\* no id is stored in two chats
IdsApart == \A m, n \in messages : m.id = n.id => m.chat_jid = n.chat_jid

\* C23: every message matched on the requested page of ListMessages with context is in
\* the result with the chat key under which it matched, also when two chats hold
\* messages with the same id.
C23_Original ==
    ListedWithContext =>
        \E page \in MatchPages(messages, chats, op.opts) :
            \A i \in 1..Len(page) : ShownInChat(page[i])

\* the same where no id is stored in two chats
C23_IdsApart == (ListedWithContext /\ IdsApart) => C23_Original

----------------------------------------------------------------------------
(* Claims about the last message of a chat *)

\* C24: without includeLastMessage, GetChat on the key of a stored chat and ListChats
\* succeed, and the views they return carry no last-message content, sender and
\* is-from-me.
C24_Original ==
    /\ (op.name = "GetChat" /\ ~op.includeLastMessage /\ \E c \in chats : c.jid = op.key) =>
          /\ op.err = "nil" /\ op.found
          /\ \A d \in op.chat :
                d.jid = op.key /\ d.last_message = {} /\ d.last_sender = {}
                               /\ d.last_is_from_me = {}
    /\ (op.name = "ListChats" /\ ~op.opts.IncludeLastMessage) =>
          /\ op.err = "nil"
          /\ \A i \in 1..Len(op.result) :
                op.result[i].last_message = {} /\ op.result[i].last_sender = {}
                                               /\ op.result[i].last_is_from_me = {}


\* no chat key is twice in the result
KeysOnce == \A i, j \in 1..Len(op.result) : op.result[i].jid = op.result[j].jid => i = j

\* the chat has one message at most at its last_message_time
OneLastMessage(c) ==
    Cardinality({m \in messages : m.chat_jid = c.jid /\ m.timestamp = c.last_message_time}) <= 1

\* C25: ListChats with includeLastMessage returns each matching chat at most once in one
\* response, also when several messages of a chat have the chat's last_message_time.
C25_Original == (ChatsListed /\ op.opts.IncludeLastMessage) => KeysOnce

\* the same where no chat has two messages at its last_message_time
C25_OneLastMessage ==
    (ChatsListed /\ op.opts.IncludeLastMessage /\ \A c \in chats : OneLastMessage(c)) => KeysOnce

\* C26: GetContactChats returns each qualifying chat at most once in one response,
\* whatever the number of messages of the chat.
C26_Original == (op.name = "GetContactChats" /\ op.err = "nil") => KeysOnce

\* the same where no chat holds two messages
C26_OneMessage ==
    (op.name = "GetContactChats" /\ op.err = "nil"
        /\ \A m, n \in messages : m.chat_jid = n.chat_jid => m = n) => KeysOnce

----------------------------------------------------------------------------
(* Claims about the two tables under ingestion and deletion *)

\* C27: under every interleaving of live messages, history sync and DeleteChat, the
\* chat key of every stored message is the key of a chat row: no message is an orphan.
C27_NoOrphan == \A m \in messages : \E c \in chats : c.jid = m.chat_jid

\* a DeleteChat removed the chat row between the StoreChat and the StoreMessage of an
\* ingestion event, and the insert of the message was refused
C27_Witness ==
    /\ lastCall.op = "StoreMessage" /\ lastCall.err = "foreign key"
    /\ ~\E c \in chats : c.jid = lastCall.args.chat_jid
    /\ messages # {}


\* the chat has a stored message at its last_message_time
LastMessageStored(c) ==
    \E m \in messages : m.chat_jid = c.jid /\ m.timestamp = c.last_message_time

\* C28: under ingestion alone, when no event is being handled, each chat has a stored
\* message of that chat at exactly its last_message_time.
C28_Original ==
    (live = Idle /\ sync = Idle) => \A c \in chats : LastMessageStored(c)


\* the step is a DeleteChat that returns before its deletes: the client is not
\* connected, the key does not parse or the remote delete fails
DeleteChatRefused ==
    del = Idle /\ del' = Idle /\ events' # events /\ live' = live /\ sync' = sync

\* C29: DeleteChat leaves the tables as they are when it returns before its deletes.
\* When the remote delete succeeds, the first delete removes the messages of that chat
\* and no other row; the second removes the chat row and no other row when no message
\* of the chat was stored in between; and only an ingestion step stores a message
\* between the two.
C29_Frame ==
    [][/\ DeleteChatRefused => chats' = chats /\ messages' = messages
       /\ (del = Idle /\ del' # Idle) => chats' = chats /\ messages' = messages
       /\ (del.pc = "DeleteMessages" /\ del' # del) =>
             /\ messages' = {m \in messages : m.chat_jid # del.jid}
             /\ chats' = chats
       /\ (del.pc = "DeleteChat" /\ del' # del
              /\ ~\E m \in messages : m.chat_jid = del.jid) =>
             /\ chats' = {c \in chats : c.jid # del.jid}
             /\ messages' = messages
       /\ (del.pc = "DeleteChat" /\ del' = del /\ messages' # messages) =>
             live' # live \/ sync' # sync]_vars

\* the message stored last was of the chat that is being deleted, it is deleted, and a
\* message of another chat is still stored
C29_Witness ==
    /\ del.pc = "DeleteChat"
    /\ lastCall.op = "StoreMessage" /\ lastCall.err = "nil"
    /\ lastCall.args.chat_jid = del.jid
    /\ ~\E m \in messages : m.chat_jid = del.jid
    /\ \E m \in messages : m.chat_jid # del.jid


\* C30: once a chat row holds a non-empty name, no step of an ingestion event changes
\* the name.
C30_Original ==
    [][\A c \in chats :
          c.name # Empty => \E d \in chats' : d.jid = c.jid /\ d.name = c.name]_vars
====
